---- MODULE Spec2Model ----
(***************************************************************************)
(* A model of the pebble blog API (Cloudflare Worker, Hono): the login     *)
(* route and the JWT middleware, the posts routes over the D1 posts table, *)
(* the upload route over the R2 bucket and the deploy webhook.             *)
(*                                                                         *)
(* Text that the code processes character by character (titles, content,  *)
(* slugs, the tags column) is a sequence of one-character strings.         *)
(* Time is counted in days.                                                *)
(***************************************************************************)
EXTENDS Integers, Sequences, FiniteSets, TLC

\* ------------------------------------------------------------------ text

UpperChars == <<"A","B","C","D","E","F","G","H","I","J","K","L","M",
                "N","O","P","Q","R","S","T","U","V","W","X","Y","Z">>

LowerChars == <<"a","b","c","d","e","f","g","h","i","j","k","l","m",
                "n","o","p","q","r","s","t","u","v","w","x","y","z">>

DigitChars == <<"0","1","2","3","4","5","6","7","8","9">>

Range(f) == {f[i] : i \in DOMAIN f}

\* String.prototype.toLowerCase on one character
LowerChar(ch) ==
  IF \E i \in DOMAIN UpperChars : UpperChars[i] = ch
  THEN LowerChars[CHOOSE i \in DOMAIN UpperChars : UpperChars[i] = ch]
  ELSE ch

\* String.prototype.toLowerCase
ToLowerCase(s) == [i \in 1..Len(s) |-> LowerChar(s[i])]

\* the place of the leftmost match of a global regular expression: the
\* least of the positions where it matches, or 0
First(S) == IF S = {} THEN 0 ELSE CHOOSE k \in S : \A m \in S : k <= m

\* the regular expression class [a-z0-9]
IsLowerAlnum(ch) == ch \in Range(LowerChars) \cup Range(DigitChars)

\* the regular expression class \w
IsWordChar(ch) ==
  ch \in Range(LowerChars) \cup Range(UpperChars) \cup Range(DigitChars) \cup {"_"}

\* the regular expression class \s
IsSpace(ch) == ch \in {" ", "\t", "\n", "\r"}

\* s.startsWith(lit, i) under the regular expression flag i (lit is lower case)
MatchesAtCI(s, i, lit) ==
  /\ i >= 1
  /\ i + Len(lit) - 1 <= Len(s)
  /\ \A k \in 1..Len(lit) : LowerChar(s[i + k - 1]) = lit[k]

\* the position after the run of characters satisfying the class, from i
RECURSIVE SkipSpaces(_, _)
SkipSpaces(s, i) ==
  IF i <= Len(s) /\ IsSpace(s[i]) THEN SkipSpaces(s, i + 1) ELSE i

RECURSIVE SkipWord(_, _)
SkipWord(s, i) ==
  IF i <= Len(s) /\ IsWordChar(s[i]) THEN SkipWord(s, i + 1) ELSE i

\* the first index j >= i with s[j] = ch, or 0
RECURSIVE IndexOfChar(_, _, _)
IndexOfChar(s, ch, i) ==
  IF i > Len(s) THEN 0
  ELSE IF s[i] = ch THEN i
  ELSE IndexOfChar(s, ch, i + 1)

\* the regular expression assertion \b after a word character at i - 1
WordBoundaryAt(s, i) == i > Len(s) \/ ~IsWordChar(s[i])

\* ------------------------------------------------------------------ slug

\* .replace(/[^a-z0-9]+/g, "-"): every maximal run of other characters
\* becomes one hyphen
RECURSIVE CollapseRuns(_, _)
CollapseRuns(s, i) ==
  IF i > Len(s) THEN <<>>
  ELSE IF IsLowerAlnum(s[i]) THEN <<s[i]>> \o CollapseRuns(s, i + 1)
  ELSE IF i > 1 /\ ~IsLowerAlnum(s[i - 1]) THEN CollapseRuns(s, i + 1)
  ELSE <<"-">> \o CollapseRuns(s, i + 1)

\* .replace(/^-|-$/g, ""): one hyphen at the start and one at the end
TrimHyphens(s) ==
  LET lead  == IF Len(s) > 0 /\ s[1] = "-" THEN 1 ELSE 0
      trail == IF Len(s) > lead /\ s[Len(s)] = "-" THEN 1 ELSE 0
  IN  SubSeq(s, 1 + lead, Len(s) - trail)

\* toSlug without its last replace
toSlugUntrimmed(title) == CollapseRuns(ToLowerCase(title), 1)

toSlug(title) == TrimHyphens(CollapseRuns(ToLowerCase(title), 1))

\* ------------------------------------------------------------- sanitizer

LitScriptOpen  == <<"<","s","c","r","i","p","t">>
LitScriptClose == <<"<","/","s","c","r","i","p","t",">">>
LitOn          == <<"o","n">>
LitJavascript  == <<"j","a","v","a","s","c","r","i","p","t",":">>
LitHref        == <<"h","r","e","f">>
LitSrc         == <<"s","r","c">>
LitAction      == <<"a","c","t","i","o","n">>
LitIframe      == <<"i","f","r","a","m","e">>
LitEmbed       == <<"e","m","b","e","d">>
LitObject      == <<"o","b","j","e","c","t">>

\* the first index j >= i where </script> starts, or 0
RECURSIVE IndexOfScriptClose(_, _)
IndexOfScriptClose(s, i) ==
  IF i > Len(s) THEN 0
  ELSE IF MatchesAtCI(s, i, LitScriptClose) THEN i
  ELSE IndexOfScriptClose(s, i + 1)

\* /<script\b[^<]*(?:(?!<\/script>)<[^<]*)*<\/script>/i at i: the index of
\* the last character of the match, or 0
ScriptMatchEnd(s, i) ==
  IF MatchesAtCI(s, i, LitScriptOpen) /\ WordBoundaryAt(s, i + 7)
  THEN LET j == IndexOfScriptClose(s, i + 7)
       IN  IF j = 0 THEN 0 ELSE j + 8
  ELSE 0

RECURSIVE RemoveScripts(_, _)
RemoveScripts(s, i) ==
  LET m == First({k \in i..Len(s) : ScriptMatchEnd(s, k) # 0})
  IN  IF m = 0 THEN SubSeq(s, i, Len(s))
      ELSE SubSeq(s, i, m - 1) \o RemoveScripts(s, ScriptMatchEnd(s, m) + 1)

\* the run [^\s>]+ from i: the position after it
RECURSIVE SkipBareValue(_, _)
SkipBareValue(s, i) ==
  IF i <= Len(s) /\ ~IsSpace(s[i]) /\ s[i] # ">"
  THEN SkipBareValue(s, i + 1) ELSE i

\* (?:"[^"]*"|'[^']*'|[^\s>]+) at p: the index of the last character, or 0
AttrValueEnd(s, p) ==
  LET dq == IF p <= Len(s) /\ s[p] = "\"" THEN IndexOfChar(s, "\"", p + 1) ELSE 0
      sq == IF p <= Len(s) /\ s[p] = "'" THEN IndexOfChar(s, "'", p + 1) ELSE 0
      bare == SkipBareValue(s, p)
  IN  IF dq # 0 THEN dq
      ELSE IF sq # 0 THEN sq
      ELSE IF bare > p THEN bare - 1
      ELSE 0

\* /\s+on\w+\s*=\s*(?:"[^"]*"|'[^']*'|[^\s>]+)/i at i: the index of the last
\* character of the match, or 0
HandlerMatchEnd(s, i) ==
  IF i <= Len(s) /\ IsSpace(s[i])
  THEN LET k == SkipSpaces(s, i)
           m == SkipWord(s, k + 2)
           q == SkipSpaces(s, m)
       IN  IF /\ MatchesAtCI(s, k, LitOn)
              /\ m > k + 2
              /\ q <= Len(s)
              /\ s[q] = "="
           THEN AttrValueEnd(s, SkipSpaces(s, q + 1))
           ELSE 0
  ELSE 0

RECURSIVE RemoveHandlers(_, _)
RemoveHandlers(s, i) ==
  LET m == First({k \in i..Len(s) : HandlerMatchEnd(s, k) # 0})
  IN  IF m = 0 THEN SubSeq(s, i, Len(s))
      ELSE SubSeq(s, i, m - 1) \o RemoveHandlers(s, HandlerMatchEnd(s, m) + 1)

\* (href|src|action) at i: the length of the attribute name, or 0
UrlAttrLen(s, i) ==
  IF MatchesAtCI(s, i, LitHref) THEN 4
  ELSE IF MatchesAtCI(s, i, LitSrc) THEN 3
  ELSE IF MatchesAtCI(s, i, LitAction) THEN 6
  ELSE 0

\* "javascript:[^"]*" with the quote character qc at p: the index of the
\* closing quote, or 0
QuotedJsEnd(s, p, qc) ==
  IF p <= Len(s) /\ s[p] = qc /\ MatchesAtCI(s, p + 1, LitJavascript)
  THEN IndexOfChar(s, qc, p + 12)
  ELSE 0

\* /(href|src|action)\s*=\s*(?:"javascript:[^"]*"|'javascript:[^']*')/i at
\* i: the index of the last character of the match, or 0
JsUrlMatchEnd(s, i) ==
  LET n == UrlAttrLen(s, i)
      q == SkipSpaces(s, i + n)
  IN  IF n # 0 /\ q <= Len(s) /\ s[q] = "="
      THEN LET p  == SkipSpaces(s, q + 1)
               dq == QuotedJsEnd(s, p, "\"")
           IN  IF dq # 0 THEN dq ELSE QuotedJsEnd(s, p, "'")
      ELSE 0

\* the replacement '$1=""'
RECURSIVE BlankJsUrls(_, _)
BlankJsUrls(s, i) ==
  LET m == First({k \in i..Len(s) : JsUrlMatchEnd(s, k) # 0})
  IN  IF m = 0 THEN SubSeq(s, i, Len(s))
      ELSE SubSeq(s, i, m + UrlAttrLen(s, m) - 1) \o <<"=", "\"", "\"">>
             \o BlankJsUrls(s, JsUrlMatchEnd(s, m) + 1)

\* (iframe|embed|object) at i: the length of the element name, or 0
FrameNameLen(s, i) ==
  IF MatchesAtCI(s, i, LitIframe) THEN 6
  ELSE IF MatchesAtCI(s, i, LitEmbed) THEN 5
  ELSE IF MatchesAtCI(s, i, LitObject) THEN 6
  ELSE 0

\* /<\/?(iframe|embed|object)\b[^>]*>/i at i: the index of the last character
\* of the match, or 0
FrameMatchEnd(s, i) ==
  IF i <= Len(s) /\ s[i] = "<"
  THEN LET k == IF i + 1 <= Len(s) /\ s[i + 1] = "/" THEN i + 2 ELSE i + 1
           n == FrameNameLen(s, k)
       IN  IF n # 0 /\ WordBoundaryAt(s, k + n)
           THEN IndexOfChar(s, ">", k + n)
           ELSE 0
  ELSE 0

RECURSIVE RemoveFrames(_, _)
RemoveFrames(s, i) ==
  LET m == First({k \in i..Len(s) : FrameMatchEnd(s, k) # 0})
  IN  IF m = 0 THEN SubSeq(s, i, Len(s))
      ELSE SubSeq(s, i, m - 1) \o RemoveFrames(s, FrameMatchEnd(s, m) + 1)

sanitizeHtml(html) ==
  IF html = <<>> THEN <<>>
  ELSE RemoveFrames(BlankJsUrls(RemoveHandlers(RemoveScripts(html, 1), 1), 1), 1)

\* ------------------------------------------------------------------ JSON

\* JSON values of the tags field of a request body: an array of strings, a
\* string, null or an object
JArray(items) == [t |-> "array", v |-> items]
JString(chars) == [t |-> "string", v |-> chars]
JNull == [t |-> "null"]
JObject == [t |-> "object"]

\* the quoted form of a string: " and \ are escaped
RECURSIVE QuoteChars(_, _)
QuoteChars(s, i) ==
  IF i > Len(s) THEN <<>>
  ELSE (IF s[i] \in {"\"", "\\"} THEN <<"\\", s[i]>> ELSE <<s[i]>>)
         \o QuoteChars(s, i + 1)

Quote(s) == <<"\"">> \o QuoteChars(s, 1) \o <<"\"">>

RECURSIVE JoinQuoted(_, _)
JoinQuoted(items, i) ==
  IF i > Len(items) THEN <<>>
  ELSE (IF i > 1 THEN <<",">> ELSE <<>>) \o Quote(items[i])
         \o JoinQuoted(items, i + 1)

JSONstringify(j) ==
  CASE j.t = "array"  -> <<"[">> \o JoinQuoted(j.v, 1) \o <<"]">>
    [] j.t = "string" -> Quote(j.v)
    [] j.t = "null"   -> <<"n","u","l","l">>
    [] OTHER          -> <<"{","}">>

\* a JSON string literal starting at the quote at i: its characters and the
\* position after the closing quote; next = 0 is a SyntaxError
RECURSIVE ScanString(_, _, _)
ScanString(s, i, acc) ==
  IF i > Len(s) THEN [v |-> acc, next |-> 0]
  ELSE IF s[i] = "\"" THEN [v |-> acc, next |-> i + 1]
  ELSE IF s[i] = "\\"
       THEN IF i + 1 <= Len(s) /\ s[i + 1] \in {"\"", "\\"}
            THEN ScanString(s, i + 2, Append(acc, s[i + 1]))
            ELSE [v |-> acc, next |-> 0]
  ELSE ScanString(s, i + 1, Append(acc, s[i]))

\* the elements of an array of strings from position i (after "[" or ","):
\* ok = FALSE is a SyntaxError
RECURSIVE ScanItems(_, _, _)
ScanItems(s, i, acc) ==
  IF i > Len(s) \/ s[i] # "\"" THEN [ok |-> FALSE, v |-> acc]
  ELSE LET r == ScanString(s, i + 1, <<>>)
       IN  IF r.next = 0 \/ r.next > Len(s) THEN [ok |-> FALSE, v |-> acc]
           ELSE IF s[r.next] = "]"
                THEN [ok |-> r.next = Len(s), v |-> Append(acc, r.v)]
           ELSE IF s[r.next] = ","
                THEN ScanItems(s, r.next + 1, Append(acc, r.v))
           ELSE [ok |-> FALSE, v |-> acc]

\* JSON.parse of the texts JSON.stringify writes (no white space)
JSONparse(s) ==
  IF s = <<"[","]">> THEN [ok |-> TRUE, j |-> JArray(<<>>)]
  ELSE IF s = <<"n","u","l","l">> THEN [ok |-> TRUE, j |-> JNull]
  ELSE IF s = <<"{","}">> THEN [ok |-> TRUE, j |-> JObject]
  ELSE IF Len(s) > 0 /\ s[1] = "["
       THEN LET r == ScanItems(s, 2, <<>>)
            IN  [ok |-> r.ok, j |-> JArray(r.v)]
  ELSE IF Len(s) > 0 /\ s[1] = "\""
       THEN LET r == ScanString(s, 2, <<>>)
            IN  [ok |-> r.next = Len(s) + 1, j |-> JString(r.v)]
  ELSE [ok |-> FALSE, j |-> JNull]

\* ------------------------------------------------------------------- SQL

\* the SQLite operator LIKE: % matches any run, _ any one character, and
\* letters match without regard to case
RECURSIVE Like(_, _, _, _)
Like(text, i, pat, j) ==
  IF j > Len(pat) THEN i > Len(text)
  ELSE IF pat[j] = "%"
       THEN \/ Like(text, i, pat, j + 1)
            \/ i <= Len(text) /\ Like(text, i + 1, pat, j)
  ELSE /\ i <= Len(text)
       /\ pat[j] = "_" \/ LowerChar(pat[j]) = LowerChar(text[i])
       /\ Like(text, i + 1, pat, j + 1)

\* --------------------------------------------------------- configuration

\* setExpirationTime("7d"), in days
TOKEN_LIFETIME == 7

\* the last day of the clock of the worker
MaxTime == 8

\* the last day of the clock of the database
MaxDay == 1

\* the largest id the posts table hands out
MaxPosts == 2

\* the number of webhook calls that can be under way together
MaxHooks == 1

\* the number of objects the bucket holds
MaxObjects == 1

Clients == {"c1", "c2"}

\* bcrypt, a one-way function of the password
bcryptHash(password) == [alg |-> "bcrypt", of |-> password]

bcryptCompare(password, hash) == hash = bcryptHash(password)

\* the HMAC of a claim set under a secret
HS256(secret, payload) == [key |-> secret, signed |-> payload]

\* new jose.SignJWT(payload).setProtectedHeader(..).setExpirationTime(..).sign(secret)
SignJWT(payload, secret) == [payload |-> payload, sig |-> HS256(secret, payload)]

\* a jwtVerify that does not look at the exp claim
jwtVerifyNoExp(token, secret, clock) == token.sig = HS256(secret, token.payload)

\* jose.jwtVerify resolves when the signature is the secret's and the exp
\* claim lies after the clock; otherwise it rejects
jwtVerify(token, secret, clock) ==
  /\ token.sig = HS256(secret, token.payload)
  /\ clock < token.payload.exp

\* c.env: the secrets and bindings of the worker. The deploy hook is optional
Env(hook) ==
  [ADMIN_USERNAME      |-> "admin",
   ADMIN_PASSWORD_HASH |-> bcryptHash("correct horse"),
   JWT_SECRET          |-> "worker-secret",
   VERCEL_DEPLOY_HOOK  |-> hook,
   R2_PUBLIC_URL       |-> <<"h","t","t","p","s",":","/","/","i","m","g",".",
                             "e","x","a","m","p","l","e">>]

\* ------------------------------------------------------------------ state

VARIABLES
  env,      \* c.env
  now,      \* the clock of the worker: Date.now()
  dbNow,    \* the clock of the database: datetime('now')
  posts,    \* the rows of the posts table
  nextId,   \* the next AUTOINCREMENT id of the posts table
  objects,  \* the R2 bucket: object key -> content type
  tokens,   \* localStorage "blog_token" of the admin: the token of the last login
  hooks,    \* the deploy webhook calls that are under way
  conn      \* per client: the request being handled, or the last response

vars == <<env, now, dbNow, posts, nextId, objects, tokens, hooks, conn>>

\* c.get("user") before any middleware has set it
NoUser == [anonymous |-> TRUE]

NoReq == [route |-> "none"]

NoResp == [status |-> 0]

Idle ==
  [pc |-> "idle", req |-> NoReq, user |-> NoUser, ran |-> FALSE,
   total |-> 0, resp |-> NoResp]

\* a request that has passed its middleware and waits for the database:
\* ran tells that the route handler was entered
Pending(pc, req, user) ==
  [pc |-> pc, req |-> req, user |-> user, ran |-> TRUE,
   total |-> 0, resp |-> NoResp]

\* c.json(body, status)
Done(req, user, ran, status, body) ==
  [pc |-> "done", req |-> req, user |-> user, ran |-> ran,
   total |-> 0, resp |-> [status |-> status, body |-> body]]

Error(message) == [error |-> message]

\* a client sends its next request when the last one has been answered
CanSend(c) == conn[c].pc \in {"idle", "done"}

InFlight(route) == {c \in Clients : conn[c].pc \notin {"idle", "done"}
                                     /\ conn[c].req.route = route}

Init ==
  /\ env \in {Env(""), Env("https://deploy.example/hook")}
  /\ now = 0
  /\ dbNow = 0
  /\ posts = {}
  /\ nextId = 1
  /\ objects = <<>>
  /\ tokens = {}
  /\ hooks = 0
  /\ conn = [c \in Clients |-> Idle]

\* the clock of the worker advances
Tick ==
  /\ now < MaxTime
  /\ now' = now + 1
  /\ UNCHANGED <<env, dbNow, posts, nextId, objects, tokens, hooks, conn>>

\* the clock of the database advances
dbTick ==
  /\ dbNow < MaxDay
  /\ dbNow' = dbNow + 1
  /\ UNCHANGED <<env, now, posts, nextId, objects, tokens, hooks, conn>>

\* ------------------------------------------------------------------ login

\* the fields of a JSON body are the domain of a record; a field of text
\* is falsy when it is missing or empty
Has(body, f) == f \in DOMAIN body

TruthyStr(body, f) == Has(body, f) /\ body[f] # ""

TruthyText(body, f) == Has(body, f) /\ body[f] # <<>>

TruthyJson(body, f) ==
  Has(body, f) /\ body[f] # JNull /\ body[f] # JString(<<>>)

\* a login that does not compare the username
loginResponseAnyUser(body, e, clock) ==
  IF ~TruthyStr(body, "username") \/ ~TruthyStr(body, "password")
  THEN [status |-> 400, body |-> Error("Username and password are required")]
  ELSE IF ~bcryptCompare(body.password, e.ADMIN_PASSWORD_HASH)
  THEN [status |-> 401, body |-> Error("Invalid credentials")]
  ELSE [status |-> 200,
        body |-> [token |-> SignJWT([username |-> body.username,
                                     exp |-> clock + TOKEN_LIFETIME],
                                    e.JWT_SECRET)]]

\* authRoutes.post("/login"): the response
loginResponse(body, e, clock) ==
  IF ~TruthyStr(body, "username") \/ ~TruthyStr(body, "password")
  THEN [status |-> 400, body |-> Error("Username and password are required")]
  ELSE IF body.username # e.ADMIN_USERNAME
  THEN [status |-> 401, body |-> Error("Invalid credentials")]
  ELSE IF ~bcryptCompare(body.password, e.ADMIN_PASSWORD_HASH)
  THEN [status |-> 401, body |-> Error("Invalid credentials")]
  ELSE [status |-> 200,
        body |-> [token |-> SignJWT([username |-> body.username,
                                     exp |-> clock + TOKEN_LIFETIME],
                                    e.JWT_SECRET)]]

Login(c, body) ==
  LET r == loginResponse(body, env, now)
      got == IF r.status = 200 THEN {r.body.token} ELSE {}
  IN  /\ CanSend(c)
      /\ tokens' = IF got = {} THEN tokens ELSE got
      /\ conn' = [conn EXCEPT ![c] =
                    Done([route |-> "login", body |-> body], NoUser, TRUE,
                         r.status, r.body)]
      /\ UNCHANGED <<env, now, dbNow, posts, nextId, objects, hooks>>

\* ------------------------------------------------------------- middleware

NoHeader == [kind |-> "none"]

\* an Authorization header that does not start with "Bearer "
BasicHeader == [kind |-> "basic"]

Bearer(token) == [kind |-> "bearer", token |-> token]

\* an auth that lets a request with a rejected token through
authLenient(header, e, clock) ==
  IF header.kind # "bearer"
  THEN [next |-> FALSE, user |-> NoUser, status |-> 401,
        body |-> Error("Authentication required")]
  ELSE IF jwtVerify(header.token, e.JWT_SECRET, clock)
  THEN [next |-> TRUE, user |-> header.token.payload, status |-> 0,
        body |-> Error("")]
  ELSE [next |-> TRUE, user |-> NoUser, status |-> 0, body |-> Error("")]

\* auth: next tells whether the route handler runs
auth(header, e, clock) ==
  IF header.kind # "bearer"
  THEN [next |-> FALSE, user |-> NoUser, status |-> 401,
        body |-> Error("Authentication required")]
  ELSE IF jwtVerify(header.token, e.JWT_SECRET, clock)
  THEN [next |-> TRUE, user |-> header.token.payload, status |-> 0,
        body |-> Error("")]
  ELSE [next |-> FALSE, user |-> NoUser, status |-> 401,
        body |-> Error("Invalid or expired token")]

\* an optionalAuth that answers a rejected token itself
optionalAuthStrict(header, e, clock) ==
  IF header.kind # "bearer"
  THEN [next |-> TRUE, user |-> NoUser, status |-> 0, body |-> Error("")]
  ELSE IF jwtVerify(header.token, e.JWT_SECRET, clock)
  THEN [next |-> TRUE, user |-> header.token.payload, status |-> 0,
        body |-> Error("")]
  ELSE [next |-> FALSE, user |-> NoUser, status |-> 401,
        body |-> Error("Invalid or expired token")]

\* optionalAuth: the route handler always runs
optionalAuth(header, e, clock) ==
  IF header.kind = "bearer" /\ jwtVerify(header.token, e.JWT_SECRET, clock)
  THEN [next |-> TRUE, user |-> header.token.payload, status |-> 0,
        body |-> Error("")]
  ELSE [next |-> TRUE, user |-> NoUser, status |-> 0, body |-> Error("")]

\* what a client can put in the Authorization header: nothing, another
\* scheme, a token it was given, such a token with its payload altered, or a
\* token signed with a secret of its own
Altered(token) == [token EXCEPT !.payload.exp = @ + 1]

Forged(clock) ==
  SignJWT([username |-> "admin", exp |-> clock + TOKEN_LIFETIME], "guessed-secret")

Headers ==
  {NoHeader, BasicHeader, Bearer(Forged(now))}
    \cup {Bearer(t) : t \in tokens}
    \cup {Bearer(Altered(t)) : t \in tokens}

\* ------------------------------------------------------------ posts table

\* parseTags: the tags column of a row, parsed; [] when it does not parse
parseTags(row) ==
  LET text == IF row.tags = <<>> THEN <<"[","]">> ELSE row.tags
      r == JSONparse(text)
  IN  [row EXCEPT !.tags = IF r.ok THEN r.j ELSE JArray(<<>>)]

\* the regular expression /<[^>]*>/g replaced by ""
RECURSIVE StripTags(_, _)
StripTags(s, i) ==
  LET m == First({k \in i..Len(s) : s[k] = "<" /\ IndexOfChar(s, ">", k + 1) # 0})
  IN  IF m = 0 THEN SubSeq(s, i, Len(s))
      ELSE SubSeq(s, i, m - 1) \o StripTags(s, IndexOfChar(s, ">", m + 1) + 1)

\* String.prototype.trim
RECURSIVE TrimEnd(_)
TrimEnd(s) ==
  IF Len(s) > 0 /\ IsSpace(s[Len(s)]) THEN TrimEnd(SubSeq(s, 1, Len(s) - 1))
  ELSE s

Trim(s) == TrimEnd(SubSeq(s, SkipSpaces(s, 1), Len(s)))

contentPreview(html) ==
  LET text == Trim(StripTags(html, 1))
  IN  IF Len(text) > 100 THEN SubSeq(text, 1, 100) \o <<".", ".", ".">>
      ELSE text

\* an item of a list response: the row with its tags parsed and its content
\* replaced by a preview
listItem(row) ==
  LET p == parseTags(row)
  IN  [id |-> p.id, title |-> p.title, slug |-> p.slug, status |-> p.status,
       tags |-> p.tags, meta_description |-> p.meta_description,
       og_image |-> p.og_image, created_at |-> p.created_at,
       updated_at |-> p.updated_at,
       content_preview |-> contentPreview(p.content)]

\* a triggerDeploy that calls the hook whether it is configured or not
triggerDeployAlways(e) == 1

\* triggerDeploy: the number of webhook calls it issues
triggerDeploy(e) == IF e.VERCEL_DEPLOY_HOOK = "" THEN 0 ELSE 1

\* a table whose only UNIQUE column is title
UniqueTitleOnly(rows, row) ==
  \E r \in rows : r.id # row.id /\ r.title = row.title

\* the UNIQUE constraints of the columns title and slug
UniqueViolation(rows, row) ==
  \E r \in rows : r.id # row.id /\ (r.title = row.title \/ r.slug = row.slug)

\* a validation that only looks at the title
createInvalidTitleOnly(body) == ~TruthyText(body, "title")

\* if (!title || !content)
createInvalid(body) == ~TruthyText(body, "title") \/ ~TruthyText(body, "content")

\* a create that stores the content as submitted
createRowRaw(id, body, clock) ==
  [id               |-> id,
   title            |-> body.title,
   content          |-> IF Has(body, "content") THEN body.content ELSE <<>>,
   slug             |-> toSlug(body.title),
   status           |-> IF TruthyStr(body, "status") THEN body.status ELSE "draft",
   tags             |-> JSONstringify(IF TruthyJson(body, "tags") THEN body.tags
                                      ELSE JArray(<<>>)),
   meta_description |-> IF TruthyStr(body, "meta_description")
                        THEN body.meta_description ELSE "",
   og_image         |-> IF TruthyStr(body, "og_image") THEN body.og_image ELSE "",
   created_at       |-> clock,
   updated_at       |-> clock]

\* the row that the INSERT of the create route binds; sanitizeHtml gives ""
\* for a content that is missing
createRow(id, body, clock) ==
  [id               |-> id,
   title            |-> body.title,
   content          |-> sanitizeHtml(IF Has(body, "content") THEN body.content
                                     ELSE <<>>),
   slug             |-> toSlug(body.title),
   status           |-> IF TruthyStr(body, "status") THEN body.status ELSE "draft",
   tags             |-> JSONstringify(IF TruthyJson(body, "tags") THEN body.tags
                                      ELSE JArray(<<>>)),
   meta_description |-> IF TruthyStr(body, "meta_description")
                        THEN body.meta_description ELSE "",
   og_image         |-> IF TruthyStr(body, "og_image") THEN body.og_image ELSE "",
   created_at       |-> clock,
   updated_at       |-> clock]

\* INSERT INTO posts ... RETURNING *: the statement fails as a whole when a
\* UNIQUE constraint is violated
insertPost(rows, row) ==
  IF UniqueViolation(rows, row)
  THEN [error |-> "UNIQUE constraint failed", rows |-> rows]
  ELSE [error |-> "", rows |-> rows \cup {row}]

\* the catch block of the create route: err.message.includes("UNIQUE")
createCatch(message) ==
  IF message = "UNIQUE constraint failed"
  THEN [status |-> 409, body |-> Error("A post with this title already exists")]
  ELSE [status |-> 500, body |-> Error("Failed to create post")]

\* a field list that takes the slug as well
UpdatableFieldsAndSlug ==
  {"title", "content", "status", "tags", "meta_description", "og_image", "slug"}

UpdatableFields ==
  {"title", "content", "status", "tags", "meta_description", "og_image"}

\* an update that sets the title and leaves the slug
updateRowKeepSlug(row, body, clock) ==
  [id               |-> row.id,
   title            |-> IF Has(body, "title") THEN body.title ELSE row.title,
   slug             |-> row.slug,
   content          |-> IF Has(body, "content") THEN sanitizeHtml(body.content)
                        ELSE row.content,
   status           |-> IF Has(body, "status") THEN body.status ELSE row.status,
   tags             |-> IF Has(body, "tags") THEN JSONstringify(body.tags)
                        ELSE row.tags,
   meta_description |-> IF Has(body, "meta_description") THEN body.meta_description
                        ELSE row.meta_description,
   og_image         |-> IF Has(body, "og_image") THEN body.og_image ELSE row.og_image,
   created_at       |-> row.created_at,
   updated_at       |-> clock]

\* an update that gives a missing status the default of the create route
updateRowDefaults(row, body, clock) ==
  [id               |-> row.id,
   title            |-> IF Has(body, "title") THEN body.title ELSE row.title,
   slug             |-> IF Has(body, "title") THEN toSlug(body.title) ELSE row.slug,
   content          |-> IF Has(body, "content") THEN sanitizeHtml(body.content)
                        ELSE row.content,
   status           |-> IF Has(body, "status") THEN body.status ELSE "draft",
   tags             |-> IF Has(body, "tags") THEN JSONstringify(body.tags)
                        ELSE row.tags,
   meta_description |-> IF Has(body, "meta_description") THEN body.meta_description
                        ELSE row.meta_description,
   og_image         |-> IF Has(body, "og_image") THEN body.og_image ELSE row.og_image,
   created_at       |-> row.created_at,
   updated_at       |-> clock]

\* the row after UPDATE posts SET <the fields of the body> WHERE id = ?
updateRow(row, body, clock) ==
  [id               |-> row.id,
   title            |-> IF Has(body, "title") THEN body.title ELSE row.title,
   slug             |-> IF Has(body, "title") THEN toSlug(body.title) ELSE row.slug,
   content          |-> IF Has(body, "content") THEN sanitizeHtml(body.content)
                        ELSE row.content,
   status           |-> IF Has(body, "status") THEN body.status ELSE row.status,
   tags             |-> IF Has(body, "tags") THEN JSONstringify(body.tags)
                        ELSE row.tags,
   meta_description |-> IF Has(body, "meta_description") THEN body.meta_description
                        ELSE row.meta_description,
   og_image         |-> IF Has(body, "og_image") THEN body.og_image ELSE row.og_image,
   created_at       |-> row.created_at,
   updated_at       |-> clock]

\* the catch block of the update route
updateCatch(message) == [status |-> 500, body |-> Error("Failed to update post")]

\* a publishing write finds room for its webhook call
HookRoom ==
  triggerDeploy(env) = 1 =>
    hooks + Cardinality(InFlight("create") \cup InFlight("update")) < MaxHooks

\* ------------------------------------------------- POST /api/posts (create)

createArrive(c, header, body) ==
  LET a == auth(header, env, now)
      req == [route |-> "create", header |-> header, body |-> body]
  IN  /\ CanSend(c)
      /\ nextId + Cardinality(InFlight("create")) <= MaxPosts
      /\ HookRoom
      /\ conn' = [conn EXCEPT ![c] =
           IF ~a.next THEN Done(req, NoUser, FALSE, a.status, a.body)
           ELSE IF createInvalid(body)
           THEN Done(req, a.user, TRUE, 400, Error("Title and content are required"))
           ELSE Pending("db", req, a.user)]
      /\ UNCHANGED <<env, now, dbNow, posts, nextId, objects, tokens, hooks>>

createCommit(c) ==
  LET k == conn[c]
      row == createRow(nextId, k.req.body, dbNow)
      r == insertPost(posts, row)
      e == createCatch(r.error)
  IN  /\ k.pc = "db"
      /\ k.req.route = "create"
      /\ posts' = r.rows
      /\ IF r.error = ""
         THEN /\ nextId' = nextId + 1
              /\ hooks' = hooks + (IF row.status = "published"
                                   THEN triggerDeploy(env) ELSE 0)
              /\ conn' = [conn EXCEPT ![c] =
                            Done(k.req, k.user, TRUE, 201, parseTags(row))]
         ELSE /\ UNCHANGED <<nextId, hooks>>
              /\ conn' = [conn EXCEPT ![c] =
                            Done(k.req, k.user, TRUE, e.status, e.body)]
      /\ UNCHANGED <<env, now, dbNow, objects, tokens>>

\* ---------------------------------------------- PUT /api/posts/:id (update)

updateArrive(c, header, id, body) ==
  LET a == auth(header, env, now)
      req == [route |-> "update", header |-> header, id |-> id, body |-> body]
  IN  /\ CanSend(c)
      /\ HookRoom
      /\ conn' = [conn EXCEPT ![c] =
           IF ~a.next THEN Done(req, NoUser, FALSE, a.status, a.body)
           ELSE IF DOMAIN body \cap UpdatableFields = {}
           THEN Done(req, a.user, TRUE, 400, Error("No fields to update"))
           ELSE Pending("db", req, a.user)]
      /\ UNCHANGED <<env, now, dbNow, posts, nextId, objects, tokens, hooks>>

updateCommit(c) ==
  LET k == conn[c]
      old == {r \in posts : r.id = k.req.id}
  IN  /\ k.pc = "db"
      /\ k.req.route = "update"
      /\ IF old = {}
         THEN /\ conn' = [conn EXCEPT ![c] =
                            Done(k.req, k.user, TRUE, 404, Error("Post not found"))]
              /\ UNCHANGED <<posts, hooks>>
         ELSE LET row == updateRow(CHOOSE r \in old : TRUE, k.req.body, dbNow)
                  e == updateCatch("UNIQUE constraint failed")
              IN  IF UniqueViolation(posts, row)
                  THEN /\ conn' = [conn EXCEPT ![c] =
                                     Done(k.req, k.user, TRUE, e.status, e.body)]
                       /\ UNCHANGED <<posts, hooks>>
                  ELSE /\ posts' = (posts \ old) \cup {row}
                       /\ hooks' = hooks + (IF row.status = "published"
                                            THEN triggerDeploy(env) ELSE 0)
                       /\ conn' = [conn EXCEPT ![c] =
                                     Done(k.req, k.user, TRUE, 200, parseTags(row))]
      /\ UNCHANGED <<env, now, dbNow, nextId, objects, tokens>>

\* ------------------------------------------- DELETE /api/posts/:id (delete)

deleteArrive(c, header, id) ==
  LET a == auth(header, env, now)
      req == [route |-> "delete", header |-> header, id |-> id]
  IN  /\ CanSend(c)
      /\ conn' = [conn EXCEPT ![c] =
           IF ~a.next THEN Done(req, NoUser, FALSE, a.status, a.body)
           ELSE Pending("db", req, a.user)]
      /\ UNCHANGED <<env, now, dbNow, posts, nextId, objects, tokens, hooks>>

\* a DELETE without its WHERE clause
deleteCommitAll(c) ==
  LET k == conn[c]
      old == {r \in posts : r.id = k.req.id}
  IN  /\ k.pc = "db"
      /\ k.req.route = "delete"
      /\ posts' = {}
      /\ conn' = [conn EXCEPT ![c] =
           IF old = {} THEN Done(k.req, k.user, TRUE, 404, Error("Post not found"))
           ELSE Done(k.req, k.user, TRUE, 200, [message |-> "Post deleted"])]
      /\ UNCHANGED <<env, now, dbNow, nextId, objects, tokens, hooks>>

deleteCommit(c) ==
  LET k == conn[c]
      old == {r \in posts : r.id = k.req.id}
  IN  /\ k.pc = "db"
      /\ k.req.route = "delete"
      /\ posts' = posts \ old
      /\ conn' = [conn EXCEPT ![c] =
           IF old = {} THEN Done(k.req, k.user, TRUE, 404, Error("Post not found"))
           ELSE Done(k.req, k.user, TRUE, 200, [message |-> "Post deleted"])]
      /\ UNCHANGED <<env, now, dbNow, nextId, objects, tokens, hooks>>

\* a webhook call whose failure takes the published posts back
deploySettleRollback ==
  /\ hooks > 0
  /\ hooks' = hooks - 1
  /\ posts' = {r \in posts : r.status # "published"}
  /\ UNCHANGED <<env, now, dbNow, nextId, objects, tokens, conn>>

\* the webhook call ends; its outcome is only logged
deploySettle ==
  /\ hooks > 0
  /\ hooks' = hooks - 1
  /\ UNCHANGED <<env, now, dbNow, posts, nextId, objects, tokens, conn>>

\* ------------------------------------------------------------ read routes

\* const { page = "1" } = c.req.query(); parseInt(page)
QueryInt(q, f, default) == IF Has(q, f) THEN q[f] ELSE default

Max(a, b) == IF a > b THEN a ELSE b

Min(a, b) == IF a < b THEN a ELSE b

\* (Math.max(1, parseInt(page)) - 1) * parseInt(limit); SQLite reads a
\* negative OFFSET as 0
queryOffset(q) ==
  Max(0, (Max(1, QueryInt(q, "page", 1)) - 1) * QueryInt(q, "limit", 20))

\* a page size without the upper bound
safeLimitNoCap(q) == Max(1, QueryInt(q, "limit", 20))

\* Math.min(100, Math.max(1, parseInt(limit)))
safeLimit(q) == Min(100, Max(1, QueryInt(q, "limit", 20)))

\* tags LIKE '%"<tag>"%'
tagMatches(row, tag) ==
  Like(row.tags, 1, <<"%", "\"">> \o tag \o <<"\"", "%">>, 1)

\* a WHERE clause without a condition on the status
listWhereAnyStatus(rows, q) ==
  {r \in rows : TruthyText(q, "tag") => tagMatches(r, q.tag)}

\* a WHERE clause that reads status=draft as status=all
listWhereDraftAsAll(rows, q) ==
  {r \in rows :
     /\ IF Has(q, "status") /\ q.status \in {"draft", "all"} THEN TRUE
        ELSE r.status = "published"
     /\ TruthyText(q, "tag") => tagMatches(r, q.tag)}

\* the WHERE clause of the list route
listWhere(rows, q) ==
  {r \in rows :
     /\ IF Has(q, "status") /\ q.status = "draft" THEN r.status = "draft"
        ELSE IF Has(q, "status") /\ q.status = "all" THEN TRUE
        ELSE r.status = "published"
     /\ TruthyText(q, "tag") => tagMatches(r, q.tag)}

\* the WHERE clause of the by-tag route
byTagWhere(rows, tag) ==
  {r \in rows : r.status = "published" /\ tagMatches(r, tag)}

\* ORDER BY created_at DESC: rows of the same second come in any order
Orderings(rows) ==
  {s \in [1..Cardinality(rows) -> rows] :
     /\ \A i, j \in DOMAIN s : i # j => s[i] # s[j]
     /\ \A i, j \in DOMAIN s : i < j => s[i].created_at >= s[j].created_at}

\* LIMIT ? OFFSET ?
Page(s, limit, offset) == SubSeq(s, offset + 1, Min(Len(s), offset + limit))

\* Math.ceil(total / limit)
Ceil(total, limit) == (total + limit - 1) \div limit

pagination(q, total) ==
  [page |-> QueryInt(q, "page", 1), limit |-> safeLimit(q), total |-> total,
   pages |-> Ceil(total, safeLimit(q))]

\* -------------------------------------------------- GET /api/posts (list)

listArrive(c, header, q) ==
  LET a == optionalAuth(header, env, now)
      req == [route |-> "list", header |-> header, query |-> q]
  IN  /\ CanSend(c)
      /\ conn' = [conn EXCEPT ![c] =
           IF ~a.next THEN Done(req, NoUser, FALSE, a.status, a.body)
           ELSE IF Has(q, "status") /\ q.status \in {"all", "draft"}
                   /\ a.user = NoUser
           THEN Done(req, a.user, TRUE, 401,
                     Error("Authentication required to view drafts"))
           ELSE Pending("count", req, a.user)]
      /\ UNCHANGED <<env, now, dbNow, posts, nextId, objects, tokens, hooks>>

\* SELECT COUNT(*)
listCount(c) ==
  LET k == conn[c]
  IN  /\ k.pc = "count"
      /\ k.req.route = "list"
      /\ conn' = [conn EXCEPT ![c] =
           [k EXCEPT !.pc = "rows",
                     !.total = Cardinality(listWhere(posts, k.req.query))]]
      /\ UNCHANGED <<env, now, dbNow, posts, nextId, objects, tokens, hooks>>

\* SELECT ... ORDER BY created_at DESC LIMIT ? OFFSET ?
listRows(c) ==
  LET k == conn[c]
      q == k.req.query
  IN  /\ k.pc = "rows"
      /\ k.req.route = "list"
      /\ \E s \in Orderings(listWhere(posts, q)) :
           conn' = [conn EXCEPT ![c] =
             Done(k.req, k.user, TRUE, 200,
                  [posts |-> [i \in DOMAIN Page(s, safeLimit(q), queryOffset(q)) |->
                                listItem(Page(s, safeLimit(q), queryOffset(q))[i])],
                   pagination |-> pagination(q, k.total)])]
      /\ UNCHANGED <<env, now, dbNow, posts, nextId, objects, tokens, hooks>>

\* ------------------------------------------ GET /api/posts/by-slug/:slug

bySlugArrive(c, slug) ==
  /\ CanSend(c)
  /\ conn' = [conn EXCEPT ![c] =
       Pending("db", [route |-> "bySlug", slug |-> slug], NoUser)]
  /\ UNCHANGED <<env, now, dbNow, posts, nextId, objects, tokens, hooks>>

\* SELECT * FROM posts WHERE slug = ? AND status = 'published'
bySlugWhere(rows, slug) ==
  {r \in rows : r.slug = slug /\ r.status = "published"}

bySlugCommit(c) ==
  LET k == conn[c]
      found == bySlugWhere(posts, k.req.slug)
  IN  /\ k.pc = "db"
      /\ k.req.route = "bySlug"
      /\ conn' = [conn EXCEPT ![c] =
           IF found = {} THEN Done(k.req, k.user, TRUE, 404, Error("Post not found"))
           ELSE Done(k.req, k.user, TRUE, 200, parseTags(CHOOSE r \in found : TRUE))]
      /\ UNCHANGED <<env, now, dbNow, posts, nextId, objects, tokens, hooks>>

\* -------------------------------------------- GET /api/posts/by-tag/:tag

byTagArrive(c, tag, q) ==
  /\ CanSend(c)
  /\ conn' = [conn EXCEPT ![c] =
       Pending("count", [route |-> "byTag", tag |-> tag, query |-> q], NoUser)]
  /\ UNCHANGED <<env, now, dbNow, posts, nextId, objects, tokens, hooks>>

byTagCount(c) ==
  LET k == conn[c]
  IN  /\ k.pc = "count"
      /\ k.req.route = "byTag"
      /\ conn' = [conn EXCEPT ![c] =
           [k EXCEPT !.pc = "rows",
                     !.total = Cardinality(byTagWhere(posts, k.req.tag))]]
      /\ UNCHANGED <<env, now, dbNow, posts, nextId, objects, tokens, hooks>>

byTagRows(c) ==
  LET k == conn[c]
      q == k.req.query
  IN  /\ k.pc = "rows"
      /\ k.req.route = "byTag"
      /\ \E s \in Orderings(byTagWhere(posts, k.req.tag)) :
           conn' = [conn EXCEPT ![c] =
             Done(k.req, k.user, TRUE, 200,
                  [tag |-> k.req.tag,
                   posts |-> [i \in DOMAIN Page(s, safeLimit(q), queryOffset(q)) |->
                                listItem(Page(s, safeLimit(q), queryOffset(q))[i])],
                   pagination |-> pagination(q, k.total)])]
      /\ UNCHANGED <<env, now, dbNow, posts, nextId, objects, tokens, hooks>>

\* --------------------------------------------------- GET /api/posts/:id

getArrive(c, id) ==
  /\ CanSend(c)
  /\ conn' = [conn EXCEPT ![c] =
       Pending("db", [route |-> "get", id |-> id], NoUser)]
  /\ UNCHANGED <<env, now, dbNow, posts, nextId, objects, tokens, hooks>>

\* a lookup by id with the status filter of the by-slug route
getCommitPublished(c) ==
  LET k == conn[c]
      found == {r \in posts : r.id = k.req.id /\ r.status = "published"}
  IN  /\ k.pc = "db"
      /\ k.req.route = "get"
      /\ conn' = [conn EXCEPT ![c] =
           IF found = {} THEN Done(k.req, k.user, TRUE, 404, Error("Post not found"))
           ELSE Done(k.req, k.user, TRUE, 200, parseTags(CHOOSE r \in found : TRUE))]
      /\ UNCHANGED <<env, now, dbNow, posts, nextId, objects, tokens, hooks>>

getCommit(c) ==
  LET k == conn[c]
      found == {r \in posts : r.id = k.req.id}
  IN  /\ k.pc = "db"
      /\ k.req.route = "get"
      /\ conn' = [conn EXCEPT ![c] =
           IF found = {} THEN Done(k.req, k.user, TRUE, 404, Error("Post not found"))
           ELSE Done(k.req, k.user, TRUE, 200, parseTags(CHOOSE r \in found : TRUE))]
      /\ UNCHANGED <<env, now, dbNow, posts, nextId, objects, tokens, hooks>>

\* ---------------------------------------------------- POST /api/uploads

ALLOWED_TYPES == {"image/jpeg", "image/png", "image/gif", "image/webp"}

MAX_SIZE == 5 * 1024 * 1024

\* formData.get("image") when the field is missing or is not a file
NoFile == [absent |-> TRUE]

\* file.name.split(".").pop(): the text after the last dot, or the whole name
RECURSIVE LastSegment(_, _)
LastSegment(name, i) ==
  IF i = 0 THEN name
  ELSE IF name[i] = "." THEN SubSeq(name, i + 1, Len(name))
  ELSE LastSegment(name, i - 1)

\* file.name.split(".").pop()?.toLowerCase() || "bin"
fileExt(name) ==
  LET seg == ToLowerCase(LastSegment(name, Len(name)))
  IN  IF seg = <<>> THEN <<"b", "i", "n">> ELSE seg

HexDigits ==
  <<"0","1","2","3","4","5","6","7","8","9","a","b","c","d","e","f">>

\* b.toString(16).padStart(2, "0")
hexByte(b) == <<HexDigits[(b \div 16) + 1], HexDigits[(b % 16) + 1]>>

\* [...bytes].map((b) => b.toString(16).padStart(2, "0")).join("")
RECURSIVE randomHex(_)
randomHex(bytes) ==
  IF bytes = <<>> THEN <<>>
  ELSE hexByte(Head(bytes)) \o randomHex(Tail(bytes))

\* crypto.getRandomValues(new Uint8Array(8)): two of its outcomes
RandomValues ==
  {<<0, 17, 34, 51, 68, 85, 102, 170>>, <<0, 17, 34, 51, 68, 85, 102, 187>>}

\* `${n}` for a number n that is a natural number
RECURSIVE Decimal(_)
Decimal(n) ==
  IF n < 10 THEN <<DigitChars[n + 1]>>
  ELSE Decimal(n \div 10) \o <<DigitChars[(n % 10) + 1]>>

\* `${Date.now()}-${randomHex}.${ext}`
fileName(clock, hex, ext) == Decimal(clock) \o <<"-">> \o hex \o <<".">> \o ext

\* a validation that takes only files below MAX_SIZE
uploadCheckBelow(file) ==
  IF file = NoFile
  THEN [status |-> 400, body |-> Error("No image file provided")]
  ELSE IF file.type \notin ALLOWED_TYPES
  THEN [status |-> 400,
        body |-> Error("Only JPEG, PNG, GIF, and WebP images are allowed")]
  ELSE IF file.size >= MAX_SIZE
  THEN [status |-> 400, body |-> Error("File too large (max 5MB)")]
  ELSE [status |-> 0, body |-> Error("")]

\* the validation of the upload route: the status and the error, or 0
uploadCheck(file) ==
  IF file = NoFile
  THEN [status |-> 400, body |-> Error("No image file provided")]
  ELSE IF file.type \notin ALLOWED_TYPES
  THEN [status |-> 400,
        body |-> Error("Only JPEG, PNG, GIF, and WebP images are allowed")]
  ELSE IF file.size > MAX_SIZE
  THEN [status |-> 400, body |-> Error("File too large (max 5MB)")]
  ELSE [status |-> 0, body |-> Error("")]

\* the handler up to its call of put: the checks, and the filename of a
\* file that passed them
uploadArrive(c, header, file, values) ==
  LET a == auth(header, env, now)
      req == [route |-> "upload", header |-> header, file |-> file]
      v == uploadCheck(file)
  IN  /\ CanSend(c)
      /\ Cardinality(DOMAIN objects) + Cardinality(InFlight("upload")) < MaxObjects
      /\ \E bytes \in values :
           conn' = [conn EXCEPT ![c] =
             IF ~a.next THEN Done(req, NoUser, FALSE, a.status, a.body)
             ELSE IF v.status # 0 THEN Done(req, a.user, TRUE, v.status, v.body)
             ELSE Pending("put",
                          [route |-> "upload", header |-> header, file |-> file,
                           filename |-> fileName(now, randomHex(bytes),
                                                 fileExt(file.name))],
                          a.user)]
      /\ UNCHANGED <<env, now, dbNow, posts, nextId, objects, tokens, hooks>>

\* c.env.R2_BUCKET.put(filename, file.stream(), {httpMetadata}) and the answer
uploadPut(c) ==
  LET k == conn[c]
      name == k.req.filename
  IN  /\ k.pc = "put"
      /\ k.req.route = "upload"
      /\ objects' = [o \in DOMAIN objects \cup {name} |->
                       IF o = name THEN k.req.file.type ELSE objects[o]]
      /\ conn' = [conn EXCEPT ![c] =
           Done(k.req, k.user, TRUE, 200,
                [url |-> env.R2_PUBLIC_URL \o <<"/">> \o name])]
      /\ UNCHANGED <<env, now, dbNow, posts, nextId, tokens, hooks>>

\* ------------------------------------------------------------- requests

TitleHello == <<"H","e","l","l","o"," ","W","o","r","l","d">>
TitleLower == <<"h","e","l","l","o"," ","w","o","r","l","d">>
TitleDraft == <<"D","r","a","f","t"," ","2">>
ContentHi == <<"<","p",">","H","i","<","/","p",">">>
ContentEvil ==
  <<"<","p"," ","o","n","c","l","i","c","k","=","\"","x","(",")","\"",">","a",
    "<","/","p",">","<","s","c","r","i","p","t",">","a","l","e","r","t","(","1",
    ")","<","/","s","c","r","i","p","t",">">>
TagJs == <<"j","s">>
TagNodejs == <<"n","o","d","e","j","s">>
SlugHello == <<"h","e","l","l","o","-","w","o","r","l","d">>
SlugDraft == <<"d","r","a","f","t","-","2">>

LoginBodies ==
  {[username |-> "admin", password |-> "correct horse"],
   [username |-> "admin", password |-> "guess"],
   [username |-> "mallory", password |-> "correct horse"],
   [username |-> "admin"],
   [username |-> "", password |-> "correct horse"],
   [username |-> "admin", password |-> ""]}

CreateBodies ==
  {[title |-> TitleHello, content |-> ContentHi, status |-> "published"],
   [title |-> TitleLower, content |-> ContentEvil, tags |-> JArray(<<TagJs>>),
    meta_description |-> "about", og_image |-> "https://img.example/og.png"],
   [title |-> TitleDraft, content |-> ContentHi, status |-> "draft",
    tags |-> JArray(<<TagNodejs>>)],
   [content |-> ContentHi],
   [title |-> <<>>, content |-> ContentHi],
   [title |-> TitleHello],
   [title |-> TitleHello, content |-> <<>>, status |-> "published"]}

UpdateBodies ==
  {<<>>,
   [status |-> "published"],
   [title |-> TitleHello],
   [title |-> TitleDraft, content |-> ContentEvil],
   [status |-> "draft", tags |-> JArray(<<TagJs>>)]}

Ids == 1..MaxPosts

Queries ==
  {<<>>,
   [status |-> "draft"],
   [status |-> "all"],
   [status |-> "published"],
   [tag |-> TagJs],
   [status |-> "all", tag |-> TagJs, page |-> 2, limit |-> 1],
   [status |-> "draft", page |-> 0, limit |-> 200]}

Slugs == {SlugHello, SlugDraft}

Tags == {TagJs}

Files ==
  {NoFile,
   [name |-> <<"a",".","P","N","G">>, type |-> "image/png", size |-> 1024 * 1024],
   [name |-> <<"n","o","t","e","s">>, type |-> "text/plain", size |-> 10],
   [name |-> <<"b",".","p","n","g">>, type |-> "image/png", size |-> MAX_SIZE + 1]}

\* ------------------------------------------------------- the whole system

\* the routes behind auth, the others, and the steps that end a request
Writes(c, headers, creates, ids, updates) ==
  \/ \E h \in headers, body \in creates : createArrive(c, h, body)
  \/ \E h \in headers, id \in ids, body \in updates : updateArrive(c, h, id, body)
  \/ \E h \in headers, id \in ids : deleteArrive(c, h, id)
  \/ createCommit(c)
  \/ updateCommit(c)
  \/ deleteCommit(c)

Lists(c, headers, queries) ==
  \/ \E h \in headers, q \in queries : listArrive(c, h, q)
  \/ listCount(c)
  \/ listRows(c)

Reads(c, slugs, tags, queries, ids) ==
  \/ \E slug \in slugs : bySlugArrive(c, slug)
  \/ \E tag \in tags, q \in queries : byTagArrive(c, tag, q)
  \/ \E id \in ids : getArrive(c, id)
  \/ bySlugCommit(c)
  \/ byTagCount(c)
  \/ byTagRows(c)
  \/ getCommit(c)

Uploads(c, headers, files, values) ==
  \/ \E h \in headers, file \in files : uploadArrive(c, h, file, values)
  \/ uploadPut(c)

\* the editor and the readers of the blog: the admin logs in and writes
\* posts, anyone reads them
Next ==
  \/ dbTick
  \/ deploySettle
  \/ \E c \in {"c1"} :
       \/ Login(c, [username |-> "admin", password |-> "correct horse"])
       \/ Writes(c, {Bearer(t) : t \in tokens}, CreateBodies, Ids, UpdateBodies)
       \/ Lists(c, {NoHeader, Bearer(Forged(now))} \cup {Bearer(t) : t \in tokens},
                Queries)
       \/ Reads(c, Slugs, Tags, {<<>>, [page |-> 2, limit |-> 1]}, Ids)

Spec == Init /\ [][Next]_vars

\* the routes behind the middleware while tokens age: a deployment without
\* a deploy hook, one post and one image
InitAuth == Init /\ env = Env("")

NextAuth ==
  \/ Tick
  \/ \E c \in {"c1"} :
       \/ \E body \in LoginBodies : Login(c, body)
       \/ Writes(c, Headers,
                 {[title |-> TitleHello, content |-> ContentHi, status |-> "published"]},
                 {1}, {[status |-> "draft"]})
       \/ Lists(c, Headers, {<<>>, [status |-> "all"]})
       \/ Uploads(c, Headers,
                  {[name |-> <<"a",".","P","N","G">>, type |-> "image/png",
                    size |-> 1024 * 1024]},
                  {<<0, 17, 34, 51, 68, 85, 102, 170>>})

SpecAuth == InitAuth /\ [][NextAuth]_vars

\* two editors at once
NextRace ==
  \/ dbTick
  \/ deploySettle
  \/ \E c \in Clients :
       \/ Login(c, [username |-> "admin", password |-> "correct horse"])
       \/ Writes(c, {Bearer(t) : t \in tokens},
                 {b \in CreateBodies : Has(b, "title") /\ Has(b, "content")},
                 {1}, {[title |-> TitleHello]})

SpecRace == Init /\ [][NextRace]_vars

\* bodies as any client of the API may send them: the routes take the
\* status and the tags of the body as they come
AnyCreateBodies ==
  {[title |-> TitleHello, content |-> ContentHi, status |-> "published"],
   [title |-> TitleDraft, content |-> ContentEvil, status |-> "archived",
    tags |-> JString(TagJs)],
   [title |-> TitleLower, content |-> ContentHi, tags |-> JNull],
   [title |-> TitleLower, content |-> ContentHi, tags |-> JObject,
    meta_description |-> "about"]}

AnyUpdateBodies ==
  {<<>>,
   [slug |-> SlugDraft],
   [title |-> TitleDraft],
   [content |-> ContentEvil, status |-> "archived"],
   [tags |-> JNull],
   [tags |-> JObject, status |-> "published"]}

\* the editor alone, sending any body
NextData ==
  \/ dbTick
  \/ deploySettle
  \/ \E c \in {"c1"} :
       \/ Login(c, [username |-> "admin", password |-> "correct horse"])
       \/ Writes(c, {Bearer(t) : t \in tokens}, AnyCreateBodies, {1},
                 AnyUpdateBodies)

SpecData == Init /\ [][NextData]_vars

\* two published posts of one tag and readers that page through them
PageCreateBodies ==
  {[title |-> TitleHello, content |-> ContentHi, status |-> "published",
    tags |-> JArray(<<TagJs>>)],
   [title |-> TitleDraft, content |-> ContentHi, status |-> "published",
    tags |-> JArray(<<TagJs, TagNodejs>>)]}

PageQueries ==
  {<<>>,
   [limit |-> 200],
   [limit |-> 100],
   [limit |-> 0],
   [limit |-> 0 - 1],
   [page |-> 0],
   [page |-> 1],
   [page |-> 0, limit |-> 1],
   [page |-> 1, limit |-> 1],
   [page |-> 2, limit |-> 1],
   [page |-> 2, limit |-> 0],
   [page |-> 0 - 1, limit |-> 1]}

NextPage ==
  \/ dbTick
  \/ \E c \in {"c1"} :
       \/ Login(c, [username |-> "admin", password |-> "correct horse"])
       \/ \E t \in tokens, body \in PageCreateBodies :
            createArrive(c, Bearer(t), body)
       \/ createCommit(c)
       \/ Lists(c, {NoHeader}, PageQueries)
       \/ \E q \in PageQueries : byTagArrive(c, TagJs, q)
       \/ byTagCount(c)
       \/ byTagRows(c)

SpecPage == InitAuth /\ [][NextPage]_vars

\* a content of 101 characters of text, and one of 100
ContentLong ==
  <<"<","p",">">> \o [i \in 1..101 |-> "a"] \o <<"<","/","p",">">>

ContentFull == <<"<","b",">">> \o [i \in 1..100 |-> "a"]

ReadCreateBodies ==
  {[title |-> TitleHello, content |-> ContentLong, status |-> "published",
    tags |-> JArray(<<TagJs>>)],
   [title |-> TitleDraft, content |-> ContentFull, status |-> "published",
    tags |-> JArray(<<TagNodejs>>)],
   [title |-> TitleLower, content |-> ContentHi, status |-> "draft",
    tags |-> JArray(<<TagJs>>)]}

\* the tag js, a case variant of it, two LIKE patterns and a part of nodejs
ReadTags ==
  {TagJs, <<"J","S">>, <<"j","_">>, <<"%">>, <<"n","o","d","e">>}

\* readers of a blog of two posts
NextRead ==
  \/ dbTick
  \/ \E c \in {"c1"} :
       \/ Login(c, [username |-> "admin", password |-> "correct horse"])
       \/ \E t \in tokens, body \in ReadCreateBodies :
            createArrive(c, Bearer(t), body)
       \/ createCommit(c)
       \/ Lists(c, {NoHeader}, {<<>>} \cup {[tag |-> tag] : tag \in ReadTags})
       \/ \E tag \in ReadTags : byTagArrive(c, tag, <<>>)
       \/ byTagCount(c)
       \/ byTagRows(c)
       \/ \E id \in Ids : getArrive(c, id)
       \/ getCommit(c)

SpecRead == InitAuth /\ [][NextRead]_vars

\* the characters of the titles: a capital, a small letter, a digit, a space
\* and a hyphen
TitleChars == {"A", "b", "1", " ", "-"}

MaxTitle == 4

\* every title of at most MaxTitle characters
Titles == UNION {[1..n -> TitleChars] : n \in 1..MaxTitle}

\* a table whose ids are used up to the last one: the posts before were
\* deleted
InitSlug ==
  /\ env = Env("")
  /\ now = 0
  /\ dbNow = 0
  /\ posts = {}
  /\ nextId = MaxPosts
  /\ objects = <<>>
  /\ tokens = {}
  /\ hooks = 0
  /\ conn = [c \in Clients |-> Idle]

\* the admin creates a post under any title
NextSlug ==
  \E c \in {"c1"} :
    \/ Login(c, [username |-> "admin", password |-> "correct horse"])
    \/ \E t \in tokens, title \in Titles :
         createArrive(c, Bearer(t), [title |-> title, content |-> ContentHi])
    \/ createCommit(c)

SpecSlug == InitSlug /\ [][NextSlug]_vars

\* contents with the markup that the sanitizer is to take out
\* <script>alert(1)</script>
HtmlScript ==
  <<"<","s","c","r","i","p","t",">","a","l","e","r","t","(","1",")","<","/",
    "s","c","r","i","p","t",">">>

\* <img onerror="x()">
HtmlHandler ==
  <<"<","i","m","g"," ","o","n","e","r","r","o","r","=","\"","x","(",")",
    "\"",">">>

\* <a href="javascript:alert(1)">x</a>
HtmlJsUrl ==
  <<"<","a"," ","h","r","e","f","=","\"","j","a","v","a","s","c","r","i",
    "p","t",":","a","l","e","r","t","(","1",")","\"",">","x","<","/","a",
    ">">>

\* <iframe src=x></iframe>
HtmlFrame ==
  <<"<","i","f","r","a","m","e"," ","s","r","c","=","x",">","<","/","i","f",
    "r","a","m","e",">">>

\* a script element whose opening tag is split by an empty script element:
\* <scr<script></script>ipt>alert(1)</script>
HtmlNested ==
  <<"<","s","c","r","<","s","c","r","i","p","t",">","<","/","s","c","r","i",
    "p","t",">","i","p","t",">","a","l","e","r","t","(","1",")","<","/","s",
    "c","r","i","p","t",">">>

Htmls == {HtmlScript, HtmlHandler, HtmlJsUrl, HtmlFrame, HtmlNested}

\* the editor stores and replaces contents with such markup
NextSanitize ==
  \E c \in {"c1"} :
    \/ Login(c, [username |-> "admin", password |-> "correct horse"])
    \/ Writes(c, {Bearer(t) : t \in tokens},
              {[title |-> TitleHello, content |-> html] : html \in Htmls}, {1},
              {[content |-> html] : html \in Htmls})

SpecSanitize == InitAuth /\ [][NextSanitize]_vars

\* the image field of the form: missing, of a type that is not an image,
\* too large by 1 MiB and by one byte, of the largest size, and images whose
\* names have an extension in capitals, no dot, and a dot at the end
UploadFiles ==
  {NoFile,
   [name |-> <<"n",".","t","x","t">>, type |-> "text/plain", size |-> 10],
   [name |-> <<"b",".","p","n","g">>, type |-> "image/png",
    size |-> 6 * 1024 * 1024],
   [name |-> <<"c",".","p","n","g">>, type |-> "image/png", size |-> MAX_SIZE + 1],
   [name |-> <<"e",".","g","i","f">>, type |-> "image/gif", size |-> MAX_SIZE],
   [name |-> <<"a",".","P","N","G">>, type |-> "image/png", size |-> 1024 * 1024],
   [name |-> <<"p","h","o","t","o">>, type |-> "image/jpeg", size |-> 1024],
   [name |-> <<"x",".">>, type |-> "image/webp", size |-> 1]}

\* the admin uploads while the clock runs
NextUpload ==
  \/ Tick
  \/ \E c \in {"c1"} :
       \/ Login(c, [username |-> "admin", password |-> "correct horse"])
       \/ Uploads(c, {NoHeader} \cup {Bearer(t) : t \in tokens}, UploadFiles,
                  RandomValues)

SpecUpload == InitAuth /\ [][NextUpload]_vars

\* a reader lists the posts while the editor creates, withdraws and deletes
\* one
NextStale ==
  \/ Login("c1", [username |-> "admin", password |-> "correct horse"])
  \/ Writes("c1", {Bearer(t) : t \in tokens},
            {[title |-> TitleHello, content |-> ContentHi, status |-> "published",
              tags |-> JArray(<<TagJs>>)]},
            {1}, {[status |-> "draft"], [status |-> "published"]})
  \/ Lists("c2", {NoHeader}, {<<>>})
  \/ byTagArrive("c2", TagJs, <<>>)
  \/ byTagCount("c2")
  \/ byTagRows("c2")

SpecStale == InitAuth /\ [][NextStale]_vars

\* ----------------------------------------------------------- properties

\* the step receives the next request of client c
Arrived(c) == CanSend(c) /\ conn'[c] # conn[c]

\* the step answers the request of client c
Answered(c) == conn'[c] # conn[c] /\ conn'[c].pc = "done"

RequiredRoutes == {"create", "update", "delete", "upload"}

\* the token carries the signature of the worker's secret over its payload
Genuine(token) == token.sig = HS256(env.JWT_SECRET, token.payload)

\* the header carries a token with the worker's signature that has not expired
ValidHeader(h) ==
  h.kind = "bearer" /\ Genuine(h.token) /\ now < h.token.payload.exp

\* C1: a request to a route behind auth without a valid bearer token is
\* answered 401 by the middleware (Authentication required without a Bearer
\* header, Invalid or expired token with a rejected one), its handler does
\* not run and the posts and the bucket stay as they are; with a valid token
\* the handler runs with the claims of the token; the posts and the bucket
\* only change in a step of a request whose handler runs with an identity
C1_RequiredAuth ==
  [][\A c \in Clients :
       /\ (Arrived(c) /\ conn'[c].req.route \in RequiredRoutes) =>
            LET h == conn'[c].req.header
                k == conn'[c]
            IN  IF ValidHeader(h)
                THEN k.ran /\ k.user = h.token.payload
                ELSE /\ k.pc = "done"
                     /\ ~k.ran
                     /\ k.user = NoUser
                     /\ k.resp.status = 401
                     /\ k.resp.body =
                          Error(IF h.kind = "bearer" THEN "Invalid or expired token"
                                ELSE "Authentication required")
                     /\ posts' = posts
                     /\ objects' = objects
       /\ (conn'[c] # conn[c] /\ (posts' # posts \/ objects' # objects)) =>
            /\ conn[c].pc \notin {"idle", "done"}
            /\ conn[c].ran
            /\ conn[c].user # NoUser]_vars

\* a request with the token of a login that has expired is answered 401
\* while a post is stored
C1_Witness ==
  \E c \in Clients :
    /\ conn[c].pc = "done"
    /\ conn[c].req.route \in RequiredRoutes
    /\ conn[c].resp.status = 401
    /\ ~conn[c].ran
    /\ conn[c].req.header.kind = "bearer"
    /\ conn[c].req.header.token \in tokens
    /\ now >= conn[c].req.header.token.payload.exp
    /\ posts # {}

\* C3: the handler of GET /api/posts always runs: without a valid token it
\* runs with no identity, exactly as for a request without a header, and
\* with a valid token it runs with the claims of the token
C3_OptionalAuth ==
  [][\A c \in Clients :
       (Arrived(c) /\ conn'[c].req.route = "list") =>
         LET h == conn'[c].req.header
             q == conn'[c].req.query
             k == conn'[c]
             bare == [k.req EXCEPT !.header = NoHeader]
         IN  /\ k.ran
             /\ k.user = IF ValidHeader(h) THEN h.token.payload ELSE NoUser
             /\ ~ValidHeader(h) =>
                  [k EXCEPT !.req = bare] =
                    IF Has(q, "status") /\ q.status \in {"all", "draft"}
                    THEN Done(bare, NoUser, TRUE, 401,
                              Error("Authentication required to view drafts"))
                    ELSE Pending("count", bare, NoUser)]_vars

\* a list request with the expired token of a login is answered 200 with
\* no identity
C3_Witness ==
  \E c \in Clients :
    /\ conn[c].pc = "done"
    /\ conn[c].req.route = "list"
    /\ conn[c].resp.status = 200
    /\ conn[c].ran
    /\ conn[c].user = NoUser
    /\ conn[c].req.header.kind = "bearer"
    /\ conn[c].req.header.token \in tokens
    /\ now >= conn[c].req.header.token.payload.exp

\* C5: the token of a login expires TOKEN_LIFETIME days after the login; auth
\* and optionalAuth accept it on every day before its expiration, whatever
\* happened since the login, and reject it from its expiration on; a token
\* that no login issued (altered, or signed with another secret) is
\* rejected on every day
C5_TokenLifetime ==
  [][/\ tokens' # tokens =>
          tokens' = {SignJWT([username |-> env.ADMIN_USERNAME,
                              exp |-> now + TOKEN_LIFETIME], env.JWT_SECRET)}
     /\ \A c \in Clients :
          (/\ Arrived(c)
           /\ conn'[c].req.route \in RequiredRoutes \cup {"list"}
           /\ conn'[c].req.header.kind = "bearer") =>
            LET tok == conn'[c].req.header.token
                k == conn'[c]
                rejected ==
                  /\ k.user = NoUser
                  /\ k.req.route \in RequiredRoutes =>
                       ~k.ran /\ k.resp.status = 401
            IN  IF tok \in tokens /\ now < tok.payload.exp
                THEN k.user = tok.payload /\ k.ran
                ELSE rejected]_vars

\* the token of a login is rejected on the day it expires
C5_Witness ==
  \E c \in Clients :
    /\ conn[c].pc = "done"
    /\ conn[c].req.route \in RequiredRoutes
    /\ conn[c].resp.status = 401
    /\ conn[c].req.header.kind = "bearer"
    /\ conn[c].req.header.token \in tokens
    /\ now = conn[c].req.header.token.payload.exp

\* C6: the login answers 200 with a token exactly when the username is the
\* admin's and the password is the one of the configured hash; a missing or
\* empty username or password is answered 400, any other mismatch 401
\* without a token, and the token names the admin
C6_Login ==
  \A c \in Clients :
    (conn[c].pc = "done" /\ conn[c].req.route = "login") =>
      LET b == conn[c].req.body
          r == conn[c].resp
          missing == ~Has(b, "username") \/ ~Has(b, "password")
                       \/ b.username = "" \/ b.password = ""
          right == /\ ~missing
                   /\ b.username = env.ADMIN_USERNAME
                   /\ bcryptHash(b.password) = env.ADMIN_PASSWORD_HASH
      IN  /\ r.status = (IF missing THEN 400 ELSE IF right THEN 200 ELSE 401)
          /\ Has(r.body, "token") <=> right
          /\ right => /\ r.body.token.payload.username = env.ADMIN_USERNAME
                      /\ Genuine(r.body.token)
                      /\ r.body.token \in tokens

\* a login with the right credentials got its token
C6_Witness ==
  \E c \in Clients :
    /\ conn[c].pc = "done"
    /\ conn[c].req.route = "login"
    /\ conn[c].resp.status = 200
    /\ conn[c].resp.body.token \in tokens

\* the posts of a list response, as the set of its items
Items(body) == {body.posts[i] : i \in DOMAIN body.posts}

\* C2: the answer to a request without identity on the list, by-slug and
\* by-tag routes only holds posts that are stored as published when the
\* answer is made, whatever the status, tag, page and limit parameters;
\* by-slug answers 404 unless a published post has the slug
C2_PublishedOnly ==
  [][\A c \in Clients :
       (/\ Answered(c)
        /\ conn'[c].req.route \in {"list", "bySlug", "byTag"}
        /\ conn'[c].user = NoUser) =>
         LET k == conn'[c]
             r == k.resp
         IN  /\ k.req.route \in {"list", "byTag"} =>
                  IF r.status = 200
                  THEN \A item \in Items(r.body) :
                         /\ item.status = "published"
                         /\ \E row \in posts :
                              /\ row.id = item.id
                              /\ row.slug = item.slug
                              /\ row.status = "published"
                  ELSE r.status = 401 /\ ~Has(r.body, "posts")
             /\ k.req.route = "bySlug" =>
                  IF \E row \in posts :
                       row.slug = k.req.slug /\ row.status = "published"
                  THEN /\ r.status = 200
                       /\ r.body.status = "published"
                       /\ r.body.slug = k.req.slug
                       /\ \E row \in posts : r.body = parseTags(row)
                  ELSE /\ r.status = 404
                       /\ r.body = Error("Post not found")]_vars

\* a draft is stored, its slug is asked for and the answer is 404
C2_Witness ==
  \E c \in Clients :
    /\ conn[c].pc = "done"
    /\ conn[c].req.route = "bySlug"
    /\ conn[c].resp.status = 404
    /\ \E row \in posts : row.slug = conn[c].req.slug /\ row.status = "draft"
    /\ \E row \in posts : row.status = "published"

\* the rows that a status parameter asks for
InScope(row, q) ==
  IF Has(q, "status") /\ q.status = "draft" THEN row.status = "draft"
  ELSE IF Has(q, "status") /\ q.status = "all" THEN TRUE
  ELSE row.status = "published"

C7_Create ==
  [][\A c \in Clients :
       (/\ Answered(c)
        /\ conn'[c].req.route = "create"
        /\ conn'[c].resp.status = 201) =>
         LET b == conn'[c].req.body
             e == conn'[c].resp.body
         IN  /\ e.title = b.title
             /\ e.slug = toSlug(b.title)
             /\ b.title \in {TitleHello, TitleLower} => e.slug = SlugHello
             /\ e.content = sanitizeHtml(b.content)
             /\ b.content = ContentHi => e.content = ContentHi
             /\ b.content = ContentEvil => e.content = <<"<","p",">","a","<","/","p",">">>
             /\ e.status = IF Has(b, "status") THEN b.status ELSE "draft"
             /\ e.tags = IF Has(b, "tags") THEN b.tags ELSE JArray(<<>>)
             /\ e.meta_description =
                  IF Has(b, "meta_description") THEN b.meta_description ELSE ""
             /\ e.og_image = IF Has(b, "og_image") THEN b.og_image ELSE ""
             /\ \E row \in posts' :
                  /\ row \notin posts
                  /\ \A old \in posts : old.id # row.id
                  /\ posts' = posts \cup {row}
                  /\ parseTags(row) = e]_vars

\* a post with scripted content was created and is stored sanitized
C7_Witness ==
  \E c \in Clients :
    /\ conn[c].pc = "done"
    /\ conn[c].req.route = "create"
    /\ conn[c].resp.status = 201
    /\ conn[c].req.body.content = ContentEvil
    /\ conn[c].resp.body.content # ContentEvil
    /\ \E row \in posts : parseTags(row) = conn[c].resp.body

\* a stored post has the title of the body or the slug of that title
Clash(rows, body) ==
  \E r \in rows : r.title = body.title \/ r.slug = toSlug(body.title)

\* C8: a create whose title or slug is the one of a stored post is answered
\* 409 and the store stays as it is, any other is answered 201; no two
\* stored posts share a title or a slug; and of two creates of one title
\* that are in the database at the same time, the one that is answered 201
\* leaves the other to be answered 409
C8_CreateConflict ==
  /\ [](\A r1, r2 \in posts :
          r1 # r2 => r1.id # r2.id /\ r1.title # r2.title /\ r1.slug # r2.slug)
  /\ [][\A c \in Clients :
          (/\ conn[c].pc = "db"
           /\ conn[c].req.route = "create"
           /\ Answered(c)) =>
            IF Clash(posts, conn[c].req.body)
            THEN /\ conn'[c].resp.status = 409
                 /\ conn'[c].resp.body =
                      Error("A post with this title already exists")
                 /\ posts' = posts
                 /\ nextId' = nextId
                 /\ hooks' = hooks
            ELSE /\ conn'[c].resp.status = 201
                 /\ Cardinality(posts') = Cardinality(posts) + 1
                 /\ \A d \in Clients \ {c} :
                      (/\ conn[d].pc = "db"
                       /\ conn[d].req.route = "create"
                       /\ conn[d].req.body.title = conn[c].req.body.title) =>
                         /\ Clash(posts', conn[d].req.body)
                         /\ createCatch(insertPost(posts',
                              createRow(nextId', conn[d].req.body, dbNow')).error).status
                              = 409]_vars

\* of two creates with titles of one slug, one was answered 201 and the
\* other 409, and one post of that slug is stored
C8_Witness ==
  \E c, d \in Clients :
    /\ c # d
    /\ conn[c].pc = "done" /\ conn[c].req.route = "create"
    /\ conn[d].pc = "done" /\ conn[d].req.route = "create"
    /\ conn[c].resp.status = 201
    /\ conn[d].resp.status = 409
    /\ conn[c].req.body.title # conn[d].req.body.title
    /\ toSlug(conn[c].req.body.title) = toSlug(conn[d].req.body.title)
    /\ Cardinality({r \in posts : r.slug = toSlug(conn[c].req.body.title)}) = 1

\* C9: an update that gives a post the title or the slug of another stored
\* post is answered 409 and leaves the posts as they are
C9_UpdateConflict ==
  [][\A c \in Clients :
       (/\ conn[c].pc = "db"
        /\ conn[c].req.route = "update"
        /\ Answered(c)
        /\ Has(conn[c].req.body, "title")
        /\ \E own \in posts : own.id = conn[c].req.id
        /\ \E other \in posts :
             /\ other.id # conn[c].req.id
             /\ \/ other.title = conn[c].req.body.title
                \/ other.slug = toSlug(conn[c].req.body.title)) =>
         /\ conn'[c].resp.status = 409
         /\ posts' = posts]_vars

\* an update to the title of another stored post was answered 500 and both
\* posts are stored as before
C9_Witness ==
  \E c \in Clients :
    /\ conn[c].pc = "done"
    /\ conn[c].req.route = "update"
    /\ conn[c].resp.status = 500
    /\ conn[c].resp.body = Error("Failed to update post")
    /\ Has(conn[c].req.body, "title")
    /\ \E own, other \in posts :
         /\ own.id = conn[c].req.id
         /\ other.id # own.id
         /\ other.title = conn[c].req.body.title
         /\ own.title # other.title

\* C10: an authenticated create whose title or content is missing or empty is
\* answered 400, stores nothing and calls no deploy hook
C10_CreateValidation ==
  [][\A c \in Clients :
       (/\ Arrived(c)
        /\ conn'[c].req.route = "create"
        /\ ValidHeader(conn'[c].req.header)
        /\ LET b == conn'[c].req.body
           IN  \/ ~Has(b, "title") \/ ~Has(b, "content")
               \/ b.title = <<>> \/ b.content = <<>>) =>
         /\ conn'[c].pc = "done"
         /\ conn'[c].resp.status = 400
         /\ conn'[c].resp.body = Error("Title and content are required")
         /\ posts' = posts
         /\ nextId' = nextId
         /\ hooks' = hooks]_vars

\* a published post without content was refused while the deploy hook is
\* configured
C10_Witness ==
  \E c \in Clients :
    /\ conn[c].pc = "done"
    /\ conn[c].req.route = "create"
    /\ conn[c].resp.status = 400
    /\ conn[c].user # NoUser
    /\ conn[c].req.body = [title |-> TitleHello, content |-> <<>>,
                           status |-> "published"]
    /\ env.VERCEL_DEPLOY_HOOK # ""
    /\ hooks = 0

\* C11: the status of every stored post is draft or published
C11_StatusDomain ==
  \A r \in posts : r.status \in {"draft", "published"}

\* a create with the status archived was answered 201 and its post is stored
\* with that status
C11_Witness ==
  \E c \in Clients :
    /\ conn[c].pc = "done"
    /\ conn[c].req.route = "create"
    /\ conn[c].resp.status = 201
    /\ Has(conn[c].req.body, "status")
    /\ conn[c].req.body.status = "archived"
    /\ \E r \in posts : r.id = conn[c].resp.body.id /\ r.status = "archived"

\* C12: the tags column of every stored post is the text of a JSON array
C12_TagsArray ==
  \A r \in posts : JSONparse(r.tags).ok /\ JSONparse(r.tags).j.t = "array"

\* a create with the string "js" as tags was answered 201 and its post is
\* stored with the text of a JSON string as tags
C12_Witness ==
  \E c \in Clients :
    /\ conn[c].pc = "done"
    /\ conn[c].req.route = "create"
    /\ conn[c].resp.status = 201
    /\ Has(conn[c].req.body, "tags")
    /\ conn[c].req.body.tags = JString(TagJs)
    /\ \E r \in posts : r.id = conn[c].resp.body.id /\ r.tags = Quote(TagJs)

\* the step answers the update of client c with 200
Updated(c) ==
  /\ conn[c].pc = "db"
  /\ conn[c].req.route = "update"
  /\ Answered(c)
  /\ conn'[c].resp.status = 200

\* C13: every stored post has the slug of its title; an update with a title
\* stores the slug of the new title in the same write, an update without a
\* title leaves title and slug as they are
C13_SlugOfTitle ==
  /\ [](\A r \in posts :
          /\ r.slug = toSlug(r.title)
          /\ r.title \in {TitleHello, TitleLower} => r.slug = SlugHello
          /\ r.title = TitleDraft => r.slug = SlugDraft)
  /\ [][\A c \in Clients :
          Updated(c) =>
            \E old \in posts, new \in posts' :
              /\ old.id = conn[c].req.id
              /\ new.id = old.id
              /\ IF Has(conn[c].req.body, "title")
                 THEN /\ new.title = conn[c].req.body.title
                      /\ new.slug = toSlug(conn[c].req.body.title)
                 ELSE /\ new.title = old.title
                      /\ new.slug = old.slug]_vars

\* an update gave a post a new title and the post is stored with the slug of
\* that title
C13_Witness ==
  \E c \in Clients :
    /\ conn[c].pc = "done"
    /\ conn[c].req.route = "update"
    /\ conn[c].resp.status = 200
    /\ conn[c].req.body = [title |-> TitleDraft]
    /\ \E r \in posts :
         /\ r.id = conn[c].req.id
         /\ r.title = TitleDraft
         /\ r.slug = SlugDraft
         /\ r.updated_at > r.created_at

\* the value an update stores for a field of its body
StoredAs(body, f) ==
  IF f = "content" THEN sanitizeHtml(body.content)
  ELSE IF f = "tags" THEN JSONstringify(body.tags)
  ELSE body[f]

\* C14: an update that is answered 200 sets, on the post of its id, the
\* fields of its body (the content sanitized, the tags as JSON text, the slug
\* with the title) and updated_at; the other fields, id and created_at of
\* that post and all other posts stay as they are; the answer is the post
C14_UpdateFrame ==
  [][\A c \in Clients :
       Updated(c) =>
         \E old \in posts, new \in posts' :
           LET b == conn[c].req.body
           IN  /\ old.id = conn[c].req.id
               /\ new.id = old.id
               /\ posts' \ {new} = posts \ {old}
               /\ \A f \in UpdatableFields :
                    new[f] = IF Has(b, f) THEN StoredAs(b, f) ELSE old[f]
               /\ new.slug = IF Has(b, "title") THEN toSlug(b.title) ELSE old.slug
               /\ new.created_at = old.created_at
               /\ new.updated_at = dbNow
               /\ nextId' = nextId
               /\ conn'[c].resp.body = parseTags(new)]_vars

\* a day after its creation a post got a new content and status while
\* another post is stored
C14_Witness ==
  \E c \in Clients :
    /\ conn[c].pc = "done"
    /\ conn[c].req.route = "update"
    /\ conn[c].resp.status = 200
    /\ conn[c].req.body = [content |-> ContentEvil, status |-> "archived"]
    /\ \E r, other \in posts :
         /\ r.id = conn[c].req.id
         /\ other.id # r.id
         /\ r.status = "archived"
         /\ r.content = sanitizeHtml(ContentEvil)
         /\ r.title = TitleHello
         /\ r.created_at = 0
         /\ r.updated_at = 1

\* C15: an authenticated update without any of the six fields is answered
\* 400, whether its id exists or not, and one with a field on an id that is
\* not stored 404; neither changes a post or calls the deploy hook
C15_UpdateErrors ==
  [][\A c \in Clients :
       /\ (/\ Arrived(c)
           /\ conn'[c].req.route = "update"
           /\ ValidHeader(conn'[c].req.header)
           /\ DOMAIN conn'[c].req.body \cap
                {"title", "content", "status", "tags", "meta_description",
                 "og_image"} = {}) =>
            /\ conn'[c].pc = "done"
            /\ conn'[c].resp.status = 400
            /\ conn'[c].resp.body = Error("No fields to update")
            /\ posts' = posts
            /\ hooks' = hooks
       /\ (/\ conn[c].pc = "db"
           /\ conn[c].req.route = "update"
           /\ Answered(c)
           /\ \A r \in posts : r.id # conn[c].req.id) =>
            /\ conn'[c].resp.status = 404
            /\ conn'[c].resp.body = Error("Post not found")
            /\ posts' = posts
            /\ hooks' = hooks]_vars

\* an update of a stored post that only carries a slug was answered 400
C15_Witness ==
  \E c \in Clients :
    /\ conn[c].pc = "done"
    /\ conn[c].req.route = "update"
    /\ conn[c].resp.status = 400
    /\ conn[c].user # NoUser
    /\ conn[c].req.body = [slug |-> SlugDraft]
    /\ \E r \in posts : r.id = conn[c].req.id /\ r.slug # SlugDraft

\* C16: a delete of a stored post is answered 200 and removes that post
\* alone, a delete of an id that is not stored is answered 404 and changes
\* nothing; an id that has left the table never comes back, a slug only
\* with a write of a create or an update; get by an id and by-slug by a slug
\* that no post has are answered 404
C16_Delete ==
  /\ [](\A r \in posts : r.id < nextId)
  /\ [][/\ nextId' >= nextId
        /\ \A r \in posts' :
             /\ (\A o \in posts : o.id # r.id) => r.id = nextId /\ nextId' > nextId
             /\ (\A o \in posts : o.slug # r.slug) =>
                  \E c \in Clients :
                    /\ conn[c].pc = "db"
                    /\ conn[c].req.route \in {"create", "update"}
                    /\ Answered(c)
        /\ \A c \in Clients :
             (conn[c].pc = "db" /\ Answered(c)) =>
               LET k == conn[c].req
                   r == conn'[c].resp
               IN  /\ k.route = "delete" =>
                        IF \E row \in posts : row.id = k.id
                        THEN /\ r.status = 200
                             /\ r.body = [message |-> "Post deleted"]
                             /\ posts' = {row \in posts : row.id # k.id}
                             /\ Cardinality(posts') = Cardinality(posts) - 1
                        ELSE /\ r.status = 404
                             /\ r.body = Error("Post not found")
                             /\ posts' = posts
                   /\ (k.route = "get" /\ \A row \in posts : row.id # k.id) =>
                        r.status = 404 /\ r.body = Error("Post not found")
                   /\ (k.route = "bySlug" /\ \A row \in posts : row.slug # k.slug) =>
                        r.status = 404 /\ r.body = Error("Post not found")]_vars

\* the first post was deleted while another post stays, and the get by its
\* id is answered 404
C16_Witness ==
  \E c \in Clients :
    /\ conn[c].pc = "done"
    /\ conn[c].req.route = "get"
    /\ conn[c].req.id = 1
    /\ conn[c].resp.status = 404
    /\ nextId > 2
    /\ \A row \in posts : row.id # 1
    /\ \E row \in posts : row.id = 2

\* the creates and updates whose answer in this step is a published post
Publishing ==
  {c \in Clients :
     /\ conn[c].pc = "db"
     /\ conn[c].req.route \in {"create", "update"}
     /\ Answered(c)
     /\ conn'[c].resp.status \in {200, 201}
     /\ conn'[c].resp.body.status = "published"}

\* C17: with a deploy hook configured each create or update that is answered
\* with a published post, and no other step, calls the hook, once and in
\* the step that stores the post; without a deploy hook no call is ever made
\* and the publishing request is answered all the same
C17_DeployHook ==
  [][/\ hooks' > hooks =>
          /\ hooks' = hooks + 1
          /\ env.VERCEL_DEPLOY_HOOK # ""
          /\ \E c \in Publishing :
               \E r \in posts' :
                 r.id = conn'[c].resp.body.id /\ r.status = "published"
     /\ (Publishing # {} /\ env.VERCEL_DEPLOY_HOOK # "") => hooks' = hooks + 1
     /\ env.VERCEL_DEPLOY_HOOK = "" => hooks = 0 /\ hooks' = 0]_vars

\* an update without a status of a published post was answered 200 and its
\* call of the deploy hook is under way
C17_Witness ==
  \E c \in Clients :
    /\ conn[c].pc = "done"
    /\ conn[c].req.route = "update"
    /\ conn[c].resp.status = 200
    /\ ~Has(conn[c].req.body, "status")
    /\ conn[c].resp.body.status = "published"
    /\ env.VERCEL_DEPLOY_HOOK # ""
    /\ hooks = 1

\* C18: the answer of a publishing create or update is there while the call
\* of the deploy hook is still under way; the end of a call, whatever its
\* outcome, changes no post and no answer and starts no other call, and an
\* answer that was given stays as it is
C18_HookOutcome ==
  [][/\ hooks' < hooks =>
          /\ hooks' = hooks - 1
          /\ posts' = posts
          /\ nextId' = nextId
          /\ conn' = conn
     /\ \A c \in Publishing :
          /\ \E r \in posts' : parseTags(r) = conn'[c].resp.body
          /\ env.VERCEL_DEPLOY_HOOK # "" => hooks' > 0
     /\ \A c \in Clients :
          conn[c].pc = "done" => conn'[c] = conn[c] \/ Arrived(c)]_vars

\* a create of a published post was answered 201, the post is stored and
\* the call of the deploy hook has not ended
C18_Witness ==
  \E c \in Clients :
    /\ conn[c].pc = "done"
    /\ conn[c].req.route = "create"
    /\ conn[c].resp.status = 201
    /\ conn[c].resp.body.status = "published"
    /\ \E r \in posts : parseTags(r) = conn[c].resp.body
    /\ hooks = 1

\* the limit parameter clamped to 1..100, 20 without a parameter
Clamped(q) ==
  LET limit == IF Has(q, "limit") THEN q.limit ELSE 20
  IN  IF limit < 1 THEN 1 ELSE IF limit > 100 THEN 100 ELSE limit

\* the step answers the list or by-tag request of client c with 200
Listed(c) ==
  /\ Answered(c)
  /\ conn'[c].req.route \in {"list", "byTag"}
  /\ conn'[c].resp.status = 200

\* C19: an answer of the list and by-tag routes holds at most as many posts
\* as the limit clamped to 1..100 (20 without a limit), its pagination.limit
\* is the clamped limit and its pagination.pages the least number of pages
\* of that size that hold pagination.total posts
C19_LimitClamp ==
  [][\A c \in Clients :
       Listed(c) =>
         LET q == conn'[c].req.query
             b == conn'[c].resp.body
             p == b.pagination
         IN  /\ Len(b.posts) <= Clamped(q)
             /\ p.limit = Clamped(q)
             /\ p.total = conn[c].total
             /\ p.pages * p.limit >= p.total
             /\ (p.pages - 1) * p.limit < p.total]_vars

\* two posts are listed with limit=0: one post on the first of two pages
C19_Witness ==
  \E c \in Clients :
    /\ conn[c].pc = "done"
    /\ conn[c].req.route = "list"
    /\ conn[c].resp.status = 200
    /\ conn[c].req.query = [limit |-> 0]
    /\ Len(conn[c].resp.body.posts) = 1
    /\ conn[c].resp.body.pagination.limit = 1
    /\ conn[c].resp.body.pagination.total = 2
    /\ conn[c].resp.body.pagination.pages = 2

\* C20: a list request with a page below 1 is answered as the same request
\* with page=1: the posts of the first page and the pagination of page 1
C20_PageZero ==
  [][\A c \in Clients :
       (/\ Listed(c)
        /\ conn'[c].req.route = "list"
        /\ Has(conn'[c].req.query, "page")
        /\ conn'[c].req.query.page < 1) =>
         LET q == conn'[c].req.query
             first == [q EXCEPT !.page = 1]
             b == conn'[c].resp.body
         IN  /\ b.pagination.page = 1
             /\ b.pagination = pagination(first, conn[c].total)
             /\ \E s \in Orderings(listWhere(posts, first)) :
                  LET rows == Page(s, safeLimit(first), queryOffset(first))
                  IN  b.posts = [i \in DOMAIN rows |-> listItem(rows[i])]]_vars

\* a list request with page=0 was answered with the posts of the first page
\* and pagination.page = 0
C20_Witness ==
  \E c \in Clients :
    /\ conn[c].pc = "done"
    /\ conn[c].req.route = "list"
    /\ conn[c].resp.status = 200
    /\ conn[c].req.query = [page |-> 0, limit |-> 1]
    /\ Len(conn[c].resp.body.posts) = 1
    /\ conn[c].resp.body.pagination.total = 2
    /\ conn[c].resp.body.pagination.page = 0

\* C21: a list request with a valid token and no status parameter is answered
\* with the drafts as well as the published posts
C21_AuthIncludesDrafts ==
  [][\A c \in Clients :
       (/\ Listed(c)
        /\ conn'[c].req.route = "list"
        /\ conn'[c].user # NoUser
        /\ conn'[c].req.query = <<>>) =>
         {item.id : item \in Items(conn'[c].resp.body)} =
           {row.id : row \in posts}]_vars

\* the admin lists without parameters while a draft and a published post
\* are stored, and the answer holds the published post alone
C21_Witness ==
  \E c \in Clients :
    /\ conn[c].pc = "done"
    /\ conn[c].req.route = "list"
    /\ conn[c].resp.status = 200
    /\ conn[c].user # NoUser
    /\ conn[c].req.query = <<>>
    /\ conn[c].resp.body.pagination.total = 1
    /\ \A item \in Items(conn[c].resp.body) : item.status = "published"
    /\ \E row \in posts :
         /\ row.status = "draft"
         /\ row.created_at = 0
         /\ dbNow = 0
         /\ row.id \notin {item.id : item \in Items(conn[c].resp.body)}
    /\ \E row \in posts :
         /\ row.status = "published"
         /\ row.id \in {item.id : item \in Items(conn[c].resp.body)}

\* the tags of the row hold a tag equal to t
HasTag(row, t) ==
  LET j == parseTags(row).tags
  IN  j.t = "array" /\ \E i \in DOMAIN j.v : j.v[i] = t

\* the tag a list or by-tag request filters by
TagOf(req) == IF req.route = "byTag" THEN req.tag ELSE req.query.tag

\* C22: the answer to a request with a tag filter t holds exactly the posts
\* of its scope whose tags have an element equal to t, and pagination.total
\* is their number
C22_ExactTag ==
  [][\A c \in Clients :
       (/\ Listed(c)
        /\ conn'[c].req.route = "list" => Has(conn'[c].req.query, "tag")) =>
         LET k == conn'[c].req
             b == conn'[c].resp.body
             tagged == {row \in posts :
                          /\ HasTag(row, TagOf(k))
                          /\ IF k.route = "byTag" THEN row.status = "published"
                             ELSE InScope(row, k.query)}
         IN  /\ {item.id : item \in Items(b)} = {row.id : row \in tagged}
             /\ b.pagination.total = Cardinality(tagged)]_vars

\* the by-tag request for JS was answered with a post whose tag is js
C22_Witness ==
  \E c \in Clients :
    /\ conn[c].pc = "done"
    /\ conn[c].req.route = "byTag"
    /\ conn[c].req.tag = <<"J","S">>
    /\ conn[c].resp.status = 200
    /\ conn[c].resp.body.pagination.total = 1
    /\ \E item \in Items(conn[c].resp.body) : item.tags = JArray(<<TagJs>>)

\* s starts with p
IsPrefix(p, s) == Len(p) <= Len(s) /\ SubSeq(s, 1, Len(p)) = p

\* C23: an item of a list or by-tag answer has no content field, and its
\* content_preview is the stored content without its markup: the whole text
\* when that has at most 100 characters, and else a beginning of the text
\* with an ellipsis, of at most 100 characters in all
C23_Preview ==
  [][\A c \in Clients :
       Listed(c) =>
         \A item \in Items(conn'[c].resp.body) :
           /\ ~Has(item, "content")
           /\ \E row \in posts :
                LET text == Trim(StripTags(row.content, 1))
                    pre == item.content_preview
                IN  /\ row.id = item.id
                    /\ Len(pre) <= 100
                    /\ IF Len(text) <= 100 THEN pre = text
                       ELSE /\ SubSeq(pre, Len(pre) - 2, Len(pre)) = <<".", ".", ".">>
                            /\ IsPrefix(SubSeq(pre, 1, Len(pre) - 3), text)]_vars

\* a post with 101 characters of text is listed with a preview of 103
\* characters
C23_Witness ==
  \E c \in Clients :
    /\ conn[c].pc = "done"
    /\ conn[c].req.route = "list"
    /\ conn[c].resp.status = 200
    /\ \E item \in Items(conn[c].resp.body) :
         /\ ~Has(item, "content")
         /\ Len(item.content_preview) = 103
         /\ \E row \in posts : row.id = item.id /\ row.content = ContentLong

IsSlugChar(ch) == IsLowerAlnum(ch) \/ ch = "-"

\* C25: the slug that a create stores for its title is in lower case, has
\* only characters of [a-z0-9-], neither starts nor ends with a hyphen, has
\* no two hyphens in a row, and is its own slug
C25_Slug ==
  [][\A c \in Clients :
       (/\ conn[c].pc = "db"
        /\ conn[c].req.route = "create"
        /\ Answered(c)
        /\ conn'[c].resp.status = 201) =>
         LET s == conn'[c].resp.body.slug
         IN  /\ s = toSlug(conn[c].req.body.title)
             /\ \E row \in posts' : row.slug = s /\ row.title = conn[c].req.body.title
             /\ s = ToLowerCase(s)
             /\ \A i \in 1..Len(s) : IsSlugChar(s[i])
             /\ Len(s) > 0 => s[1] # "-" /\ s[Len(s)] # "-"
             /\ \A i \in 1..(Len(s) - 1) : ~(s[i] = "-" /\ s[i + 1] = "-")
             /\ toSlug(s) = s]_vars

\* the title "-A -", with a hyphen at each end and a run of two other
\* characters, is stored under the slug a
C25_Witness ==
  \E row \in posts :
    /\ row.title = <<"-", "A", " ", "-">>
    /\ row.slug = <<"a">>

\* the text has a script element, an on* handler, a javascript: URL in a
\* quoted href, src or action, or an iframe, embed or object tag, as the
\* patterns of the sanitizer find them
HasScript(s) == \E k \in 1..Len(s) : ScriptMatchEnd(s, k) # 0

HasHandler(s) == \E k \in 1..Len(s) : HandlerMatchEnd(s, k) # 0

HasJsUrl(s) == \E k \in 1..Len(s) : JsUrlMatchEnd(s, k) # 0

HasFrame(s) == \E k \in 1..Len(s) : FrameMatchEnd(s, k) # 0

\* C26: no stored content has a script element, an on* handler, a
\* javascript: URL in a quoted href, src or action, or an iframe, embed or
\* object tag, whatever content a create or an update submitted
C26_Neutralised ==
  \A row \in posts :
    /\ ~HasScript(row.content)
    /\ ~HasHandler(row.content)
    /\ ~HasJsUrl(row.content)
    /\ ~HasFrame(row.content)

\* the create of the split script element was answered 201 and the post is
\* stored with the content <script>alert(1)</script>
C26_Witness ==
  \E c \in Clients :
    /\ conn[c].pc = "done"
    /\ conn[c].req.route = "create"
    /\ conn[c].req.body.content = HtmlNested
    /\ conn[c].resp.status = 201
    /\ \E row \in posts : row.id = conn[c].resp.body.id /\ row.content = HtmlScript

\* the image field is a file of one of the four image types and of at most
\* 5 MiB
Accepted(file) ==
  /\ file # NoFile
  /\ file.type \in {"image/jpeg", "image/png", "image/gif", "image/webp"}
  /\ file.size <= 5 * 1024 * 1024

\* C27: an upload with a valid token goes on to write an object exactly
\* when its image field is a file of an image type and of at most 5 MiB, and
\* is otherwise answered 400 with the bucket as it was; the write stores the
\* object under the generated filename with the type of the file and is
\* answered with the public base URL, a slash and the filename; nothing else
\* changes the bucket
C27_Upload ==
  [][\A c \in Clients :
       /\ (/\ Arrived(c)
           /\ conn'[c].req.route = "upload"
           /\ ValidHeader(conn'[c].req.header)) =>
            /\ objects' = objects
            /\ IF Accepted(conn'[c].req.file) THEN conn'[c].pc = "put"
               ELSE conn'[c].pc = "done" /\ conn'[c].resp.status = 400
       /\ (conn[c].pc = "put" /\ conn'[c] # conn[c]) =>
            LET file == conn[c].req.file
                name == conn[c].req.filename
            IN  /\ Accepted(file)
                /\ conn'[c].pc = "done"
                /\ conn'[c].resp.status = 200
                /\ conn'[c].resp.body.url = env.R2_PUBLIC_URL \o <<"/">> \o name
                /\ DOMAIN objects' = DOMAIN objects \cup {name}
                /\ objects'[name] = file.type
                /\ \A o \in DOMAIN objects \ {name} : objects'[o] = objects[o]
       /\ (/\ Answered(c)
           /\ conn'[c].req.route = "upload"
           /\ conn'[c].resp.status = 200) => conn[c].pc = "put"
       /\ objects' # objects =>
            \E d \in Clients : conn[d].pc = "put" /\ conn'[d].pc = "done"]_vars

\* a GIF of exactly 5 MiB was stored and its URL returned
C27_Witness ==
  \E c \in Clients :
    /\ conn[c].pc = "done"
    /\ conn[c].req.route = "upload"
    /\ conn[c].resp.status = 200
    /\ conn[c].req.file.size = 5 * 1024 * 1024
    /\ conn[c].req.filename \in DOMAIN objects
    /\ objects[conn[c].req.filename] = "image/gif"

\* the extension of a file name: the text after its last dot, and bin when
\* the name has no dot or nothing after its last dot
ExtensionOrBin(name) ==
  LET dots == {i \in 1..Len(name) : name[i] = "."}
      last == CHOOSE i \in dots : \A j \in dots : j <= i
  IN  IF dots = {} THEN <<"b", "i", "n">>
      ELSE IF last = Len(name) THEN <<"b", "i", "n">>
      ELSE SubSeq(name, last + 1, Len(name))

\* C28: the filename of an accepted upload is the clock of the request, a
\* hyphen, at least 16 hexadecimal digits, a dot and the extension of the
\* name of the file (in any case of letters), which is bin when that name
\* has no extension
C28_FileName ==
  [][\A c \in Clients :
       (Arrived(c) /\ conn'[c].pc = "put") =>
         LET f == conn'[c].req.filename
             d == Decimal(now)
             n == Len(d)
             ext == ExtensionOrBin(conn'[c].req.file.name)
         IN  /\ Len(f) >= n + 1
             /\ SubSeq(f, 1, n + 1) = d \o <<"-">>
             /\ \E m \in 16..(Len(f) - n - 2) :
                  /\ \A i \in 1..m : f[n + 1 + i] \in Range(HexDigits)
                  /\ f[n + 2 + m] = "."
                  /\ ToLowerCase(SubSeq(f, n + 3 + m, Len(f))) = ToLowerCase(ext)]_vars

\* the image named photo was stored under a filename that ends in .photo
C28_Witness ==
  \E c \in Clients :
    /\ conn[c].pc = "done"
    /\ conn[c].req.route = "upload"
    /\ conn[c].resp.status = 200
    /\ conn[c].req.file.name = <<"p", "h", "o", "t", "o">>
    /\ LET f == conn[c].req.filename
       IN  /\ f \in DOMAIN objects
           /\ SubSeq(f, Len(f) - 5, Len(f)) = <<".", "p", "h", "o", "t", "o">>

\* the ids of a sequence of posts
IdsOf(s) == [i \in DOMAIN s |-> s[i].id]

\* C29: the answer to a list request for a page p >= 1 holds the posts at
\* the places (p-1)*L+1 to p*L of the posts of its scope, newest first, where
\* L is the pagination.limit of the answer
C29_PageWindow ==
  [][\A c \in Clients :
       (/\ Listed(c)
        /\ conn'[c].req.route = "list"
        /\ QueryInt(conn'[c].req.query, "page", 1) >= 1) =>
         LET q == conn'[c].req.query
             b == conn'[c].resp.body
             p == QueryInt(q, "page", 1)
             L == b.pagination.limit
         IN  \E s \in Orderings({row \in posts : InScope(row, q)}) :
               IdsOf(b.posts) = IdsOf(SubSeq(s, (p - 1) * L + 1, Min(Len(s), p * L)))]_vars

\* two posts of different days are stored, and the request for page 2 with
\* limit 0 was answered with pages 2, limit 1 and the newer post, which is
\* the post of page 1
C29_Witness ==
  \E c \in Clients :
    /\ conn[c].pc = "done"
    /\ conn[c].req.route = "list"
    /\ conn[c].req.query = [page |-> 2, limit |-> 0]
    /\ conn[c].resp.status = 200
    /\ conn[c].resp.body.pagination.pages = 2
    /\ conn[c].resp.body.pagination.limit = 1
    /\ Len(conn[c].resp.body.posts) = 1
    /\ \E row \in posts : row.created_at < conn[c].resp.body.posts[1].created_at

\* C30: the pagination.total of an answer of the list and by-tag routes is
\* the number of posts of its scope in the table as the rows were read from
\* it, so that the answer never holds more posts than its total
C30_TotalOfRows ==
  [][\A c \in Clients :
       Listed(c) =>
         LET k == conn'[c].req
             b == conn'[c].resp.body
             scope == IF k.route = "byTag"
                      THEN {row \in posts : row.status = "published"
                                             /\ HasTag(row, k.tag)}
                      ELSE {row \in posts : InScope(row, k.query)}
         IN  /\ b.pagination.total = Cardinality(scope)
             /\ Len(b.posts) <= b.pagination.total]_vars

\* a list request was answered with a post on page 1 and the total 0: the
\* post was created between the count and the read of the rows
C30_Witness ==
  \E c \in Clients :
    /\ conn[c].pc = "done"
    /\ conn[c].req.route = "list"
    /\ conn[c].resp.status = 200
    /\ conn[c].resp.body.pagination.total = 0
    /\ Len(conn[c].resp.body.posts) = 1

====
